---- MODULE Spec2Model ----
(***************************************************************************)
(* Booking engine of shinnostudio/bookme (multi-tenant variant).            *)
(*                                                                         *)
(* The model follows handleBookingsRoutes.create (src/src/routes/           *)
(* bookings.ts) from one read or write of shared state to the next: an      *)
(* action is the code of one request that runs around one such await,       *)
(* together with the purely local code before the next one, so concurrent   *)
(* requests interleave wherever the Workers runtime lets them observe each  *)
(* other.  The remote calendars, the D1 tables and the clock are shared;    *)
(* everything else is local to a request.  Every upstream call (token       *)
(* endpoint, calendar, D1 insert, mail) may fail.                           *)
(*                                                                         *)
(* Spec      the booking transaction, concurrent requests                   *)
(* SlotSpec  one request to the slots route (src/src/routes/slots.ts) with  *)
(*           calculateSlots (src/src/services/calendar.ts) on instants      *)
(*           counted in minutes and two tenant zones, one of them with a    *)
(*           daylight-saving change inside the dates covered                *)
(* VaultSpec encrypt followed by decrypt (src/src/services/crypto.ts) on    *)
(*           strings of UTF-16 code units                                   *)
(* AccountSpec the sign-in callback (src/src/routes/auth.ts) and the        *)
(*           settings update of two clients, interleaved at their awaits    *)
(* RouteSpec the callback, the dashboard routes and the public settings     *)
(*           route, one request after the other, with what each response    *)
(*           carries                                                        *)
(***************************************************************************)
EXTENDS Integers, Sequences, FiniteSets, TLC

\* ------------------------------------------------------------------ bounds
MaxReq  == 2          \* booking requests in flight or finished
MaxTime == 2          \* the clock runs over 0..MaxTime

Reqs  == 1..MaxReq
Times == 0..MaxTime

\* ------------------------------------------------------------ environment
\* env.ENCRYPTION_KEY and env.RESEND_API_KEY (src/src/types.ts Env)
ENCRYPTION_KEY == "K"
RESEND_API_KEY == "re_key"

\* ------------------------------------------------------------ crypto.ts
\* A string is the sequence of its UTF-16 code units, a byte array the
\* sequence of its bytes.
MaxLen == 3              \* code units of a plaintext given to encrypt

\* 'a', e-acute, U+FEFF, a high surrogate, a low surrogate
CodeUnits == {97, 233, 65279, 55296, 56320}

IsHighSurrogate(c) == c \in 55296..56319

IsLowSurrogate(c) == c \in 56320..57343

\* UTF-8 of one scalar value
Utf8(cp) ==
    IF cp < 128 THEN <<cp>>
    ELSE IF cp < 2048 THEN <<192 + (cp \div 64), 128 + (cp % 64)>>
    ELSE IF cp < 65536
         THEN <<224 + (cp \div 4096), 128 + ((cp \div 64) % 64), 128 + (cp % 64)>>
         ELSE <<240 + (cp \div 262144), 128 + ((cp \div 4096) % 64),
                128 + ((cp \div 64) % 64), 128 + (cp % 64)>>

\* new TextEncoder().encode(str): a surrogate pair is one scalar value, an
\* unpaired surrogate is replaced by U+FFFD
RECURSIVE TextEncode(_)
TextEncode(str) ==
    IF str = <<>> THEN <<>>
    ELSE LET c == Head(str) IN
         IF IsHighSurrogate(c) /\ Len(str) > 1 /\ IsLowSurrogate(str[2])
         THEN Utf8(65536 + (c - 55296) * 1024 + (str[2] - 56320))
              \o TextEncode(Tail(Tail(str)))
         ELSE IF IsHighSurrogate(c) \/ IsLowSurrogate(c)
              THEN Utf8(65533) \o TextEncode(Tail(str))
              ELSE Utf8(c) \o TextEncode(Tail(str))

IsContinuation(bytes, i) == i <= Len(bytes) /\ bytes[i] \in 128..191

\* The scalar values of a UTF-8 byte sequence; a byte that starts no sequence
\* becomes U+FFFD.
RECURSIVE Utf8Decode(_)
Utf8Decode(bytes) ==
    IF bytes = <<>> THEN <<>>
    ELSE LET b1 == bytes[1]
             rest(n) == Utf8Decode(SubSeq(bytes, n + 1, Len(bytes)))
         IN
         IF b1 < 128 THEN <<b1>> \o rest(1)
         ELSE IF b1 \in 194..223 /\ IsContinuation(bytes, 2)
              THEN <<(b1 - 192) * 64 + (bytes[2] - 128)>> \o rest(2)
         ELSE IF b1 \in 224..239 /\ IsContinuation(bytes, 2)
                 /\ IsContinuation(bytes, 3)
              THEN <<(b1 - 224) * 4096 + (bytes[2] - 128) * 64
                     + (bytes[3] - 128)>> \o rest(3)
         ELSE IF b1 \in 240..244 /\ IsContinuation(bytes, 2)
                 /\ IsContinuation(bytes, 3) /\ IsContinuation(bytes, 4)
              THEN <<(b1 - 240) * 262144 + (bytes[2] - 128) * 4096
                     + (bytes[3] - 128) * 64 + (bytes[4] - 128)>> \o rest(4)
         ELSE <<65533>> \o rest(1)

\* the UTF-16 code units of a sequence of scalar values
RECURSIVE Utf16(_)
Utf16(cps) ==
    IF cps = <<>> THEN <<>>
    ELSE LET cp == Head(cps) IN
         IF cp < 65536 THEN <<cp>> \o Utf16(Tail(cps))
         ELSE <<55296 + ((cp - 65536) \div 1024),
                56320 + ((cp - 65536) % 1024)>>
              \o Utf16(Tail(cps))

\* new TextDecoder().decode(bytes): utf-8, ignoreBOM false, so a leading
\* U+FEFF is dropped
TextDecode(bytes) ==
    LET cps == Utf8Decode(bytes)
    IN  Utf16(IF cps # <<>> /\ Head(cps) = 65279 THEN Tail(cps) ELSE cps)

\* crypto.ts:7-28  PBKDF2 with a fixed salt: a key determined by the secret
deriveKey(secret) == [name |-> "AES-GCM", secret |-> secret]

\* crypto.getRandomValues(new Uint8Array(12)): what the nonce may come out as.
\* The 12 bytes of a nonce are kept as one element of a byte sequence.
Ivs == {<<0>>, <<1>>}

\* crypto.subtle.encrypt({name: 'AES-GCM', iv}, key, data): one ciphertext
\* byte per data byte, in the order of the data, followed by the tag (at = 0),
\* which is bound to the key, the nonce and all the data.
AesGcmEncrypt(key, iv, data) ==
    [i \in 1..Len(data) |-> [at |-> i, val |-> data[i]]]
    \o <<[at |-> 0, val |-> data, key |-> key, iv |-> iv]>>

\* Mutant: the cipher is not authenticated, whatever precedes the last
\* element is handed back as the data.
AesGcmDecrypt_unauthenticated(key, iv, ciphertext) ==
    LET n == Len(ciphertext) - 1
    IN  IF n >= 0
        THEN [ok |-> TRUE, data |-> [i \in 1..n |-> ciphertext[i].val]]
        ELSE [ok |-> FALSE, data |-> <<>>]

\* crypto.subtle.decrypt: the data when the tag verifies under the key and
\* the nonce for the bytes before it, OperationError otherwise.
AesGcmDecrypt(key, iv, ciphertext) ==
    LET n    == Len(ciphertext) - 1
        data == [i \in 1..n |-> ciphertext[i].val]
        good == /\ n >= 0
                /\ \A i \in 1..n : ciphertext[i].at = i
                /\ ciphertext[n + 1].at = 0
                /\ ciphertext[n + 1].key = key
                /\ ciphertext[n + 1].iv = iv
                /\ ciphertext[n + 1].val = data
    IN  IF good THEN [ok |-> TRUE, data |-> data]
                ELSE [ok |-> FALSE, data |-> <<>>]

\* btoa(String.fromCharCode(...bytes)) and its inverse
\* Uint8Array.from(atob(s), c => c.charCodeAt(0)): base64 is one-to-one on
\* byte sequences, the bytes stay readable inside the string.
btoa(bytes) == [base64 |-> bytes]

atob(str) == str.base64

\* crypto.ts:31-48  encrypt(plaintext, secret), with the nonce it drew
encrypt(plaintext, secret, iv) ==
    LET key        == deriveKey(secret)
        encoded    == TextEncode(plaintext)
        ciphertext == AesGcmEncrypt(key, iv, encoded)
    IN  btoa(iv \o ciphertext)

\* The empty string the OAuth callback stores when Google issued no refresh
\* token (auth.ts:66-68).
EmptyBlob == btoa(<<>>)

\* crypto.ts:51-65  decrypt(encrypted, secret): ok and the plaintext, or the
\* throw of crypto.subtle.decrypt
decrypt(encrypted, secret) ==
    LET key        == deriveKey(secret)
        combined   == atob(encrypted)
        cut        == IF combined = <<>> THEN 0 ELSE 1
        iv         == SubSeq(combined, 1, cut)
        ciphertext == SubSeq(combined, cut + 1, Len(combined))
        decrypted  == AesGcmDecrypt(key, iv, ciphertext)
    IN  IF decrypted.ok
        THEN [ok |-> TRUE, pt |-> TextDecode(decrypted.data)]
        ELSE [ok |-> FALSE, pt |-> <<>>]

\* the refresh token Google issued to user u: "rt1", "rt2", ...
RefreshTokenOf(u) == <<114, 116, 48 + u>>

\* ------------------------------------------------------------- D1 tables
NoUser == [id |-> 0, slug |-> "", refresh_token |-> EmptyBlob]

\* users rows (migrations/0002_saas.sql): alice and bob are onboarded tenants,
\* carol cleared her calendarId through a settings update, dave's first OAuth
\* callback carried no refresh token.
InitUsers ==
    { [id |-> u, slug |-> CASE u = 1 -> "alice" [] u = 2 -> "bob"
                             [] u = 3 -> "carol" [] OTHER -> "dave",
       refresh_token |->
           IF u = 4 THEN EmptyBlob
           ELSE encrypt(RefreshTokenOf(u), ENCRYPTION_KEY,
                        <<u>>)] : u \in 1..4 }

UserIds == {1, 2, 3, 4}
Slugs   == {"alice", "bob", "carol", "dave", "ghost"}

\* settings rows per user as getSettings returns them (only the fields the
\* booking transaction reads).  bob removed his ownerEmail.
InitSettings ==
    [u \in UserIds |->
        [calendarId |-> CASE u = 1 -> "alice@cal" [] u = 2 -> "bob@cal"
                          [] u = 3 -> "" [] OTHER -> "dave@cal",
         ownerEmail |-> IF u = 2 THEN "" ELSE "owner@mail",
         timezone   |-> "Asia/Tokyo"]]

CalendarIds == {"alice@cal", "bob@cal", "dave@cal"}

\* ------------------------------------------------------------- requests
Fields == {"startTime", "endTime", "name", "email"}

\* [start, end) of the requests: two that touch, one that overlaps both
Intervals == {<<1, 2>>, <<2, 3>>, <<1, 3>>}

\* Booking requests: slug from the URL, the body's missing fields, and the
\* instants startTime and endTime parse to.
BookingInputs ==
    {[slug |-> "alice", missing |-> {f}, start |-> 1, end |-> 2] : f \in Fields}
    \cup {[slug |-> s, missing |-> {}, start |-> 1, end |-> 2] :
            s \in {"carol", "dave", "ghost"}}
    \cup {[slug |-> "bob", missing |-> {}, start |-> 1, end |-> 2]}
    \cup {[slug |-> "alice", missing |-> {}, start |-> i[1], end |-> i[2]] :
            i \in Intervals}

NoInput == [slug |-> "", missing |-> {}, start |-> 0, end |-> 0]

\* ------------------------------------------------------------- responses
\* A JSON body: {success, message} from the route, {error} from fetch's catch.
\* A key the body does not carry reads as FALSE / "".
Body(success, message, error) ==
    [success |-> success, message |-> message, error |-> error]

\* jsonResponse(data, status)
jsonResponse(data, status) == [status |-> status, body |-> data]

NoResponse == jsonResponse(Body(FALSE, "", ""), 0)

VARIABLES
    now,          \* Date.now()
    users,        \* D1 table users
    settings,     \* D1 table settings, per user
    bookings,     \* D1 table bookings, in insertion order
    calendar,     \* the remote calendars: events per calendarId
    pc,           \* per request: the await it is suspended at
    req,          \* per request: its input
    user,         \* per request: the row getUserBySlug returned
    conf,         \* per request: the Settings getSettings returned
    refreshToken, \* per request: the decrypted refresh token
    accessToken,  \* per request: the token refreshAccessToken returned
    events,       \* per request: what getCalendarEvents returned
    eventId,      \* per request: the id createCalendarEvent returned
    response,     \* per request: the Response of fetch
    calls,        \* per request: the calls it made, in order
    errlog,       \* per request: what it wrote with console.error
    slotsPc,      \* the slots request: the await it is suspended at
    query,        \* the slots request: its date parameter
    busy,         \* the slots request: what getCalendarEvents returned
    slotsResponse, \* the slots request: the Response of fetch
    slotLocal,    \* the slots request: the locals of calculateSlots in its loop
    vaultPc,      \* the vault round trip: where it stands
    vaultIn,      \* the vault round trip: plaintext and secret
    vaultBlob,    \* the vault round trip: what encrypt returned
    vaultOut,     \* the vault round trip: what decrypt returned
    google,       \* per Google account: the last refresh token issued to it
    acctPc,       \* per client: the await its callback or update stands at
    acctLocal,    \* per client: the locals of its callback or update
    sessions,     \* the session tokens issued so far
    lastResponse  \* the Response the last step of an account route returned

\* the state of the slots route
slotsVars == <<slotsPc, query, busy, slotsResponse, slotLocal>>

\* the state of an encrypt/decrypt round trip
vaultVars == <<vaultPc, vaultIn, vaultBlob, vaultOut>>

\* the state of the sign-in and dashboard routes
accountVars == <<google, acctPc, acctLocal, sessions, lastResponse>>

VARIABLES
    cachedToken,  \* settings.ts:96  the process-wide token cache
    tokenPc,      \* per caller of getAccessToken: the await it is suspended at
    tokenLocal,   \* per caller: its `now` and the token response it awaits
    lastCall      \* the calendar call made in the last step, if any

\* the state of the service-account token cache
cacheVars == <<cachedToken, tokenPc, tokenLocal, lastCall>>

vars == <<now, users, settings, bookings, calendar, pc, req, user, conf,
          refreshToken, accessToken, events, eventId, response, calls,
          errlog, slotsVars, vaultVars, accountVars, cacheVars>>

\* ------------------------------------------------------------- helpers
\* getUserBySlug(db, slug): SELECT * FROM users WHERE slug = ? .first()
getUserBySlug(db, slug) ==
    IF \E u \in db : u.slug = slug
    THEN CHOOSE u \in db : u.slug = slug
    ELSE NoUser

\* getSettings(db, userId)
getSettings(db, userId) == db[userId]

\* Mutant: the check forgets the email field.
MissingRequired_noEmail(body) ==
    \/ "startTime" \in body.missing
    \/ "endTime" \in body.missing
    \/ "name" \in body.missing

\* bookings.ts:20  !body.startTime || !body.endTime || !body.name || !body.email
MissingRequired(body) ==
    \/ "startTime" \in body.missing
    \/ "endTime" \in body.missing
    \/ "name" \in body.missing
    \/ "email" \in body.missing

\* Mutant: the comparison is off by one instant.
IsPastStart_offByOne(start, t) == start + 1 < t

\* bookings.ts:37  start.getTime() < Date.now()
IsPastStart(start, t) == start < t

\* Mutant: the query only asks for events that start inside the window.
EventsInRange_startsInside(cal, timeMin, timeMax) ==
    {e \in cal : e.start >= timeMin /\ e.start < timeMax}

\* calendar.ts:21  maxResults: '250'
MaxResults == 250

\* The first page of events.list with orderBy: 'startTime': the events fewer
\* than MaxResults others start before.  The response's nextPageToken is not
\* read (calendar.ts:35-49), so no further page is asked for.
FirstPage(found) ==
    IF Cardinality(found) <= MaxResults
    THEN found
    ELSE {e \in found :
            Cardinality({f \in found : f.start < e.start}) < MaxResults}

\* The calendar provider's events.list(timeMin, timeMax): the events that end
\* after timeMin and start before timeMax (calendar.ts:16-22 sets the window),
\* cut to the first page.
EventsInRange(cal, timeMin, timeMax) ==
    FirstPage({e \in cal : e.end > timeMin /\ e.start < timeMax})

\* Mutant: a single busy period is let through.
HasConflict_moreThanOne(found) == Cardinality(found) > 1

\* bookings.ts:53  events.length > 0
HasConflict(found) == Cardinality(found) > 0

\* The access token the provider issues for a refresh grant: good for the
\* account the refresh token was issued to.
NoToken == [grant |-> ""]
\* Mutant: a token cached process-wide, obtained for the first tenant served,
\* is handed to every request.
AccessTokenFor_cached(rt) == [grant |-> RefreshTokenOf(1)]

AccessTokenFor(rt) == [grant |-> rt]

\* The id the provider gives a new event: fresh among all events it holds.
\* It is named after the call that made it: the caller and how many events
\* that caller made before.
NewEventId(cals, r) ==
    <<r, 1 + Cardinality({e \in UNION {cals[c] : c \in CalendarIds} : e.by = r})>>

NoEventId == <<0, 0>>

\* ----------------------------------------------------------- responses
MissingFieldsResponse == jsonResponse(Body(FALSE, "required fields missing", ""), 400)
UserNotFoundResponse  == jsonResponse(Body(FALSE, "user not found", ""), 404)
NoCalendarResponse    == jsonResponse(Body(FALSE, "calendar not configured", ""), 400)
PastDateResponse      == jsonResponse(Body(FALSE, "past date cannot be booked", ""), 400)
\* Mutant: the conflict is answered like a validation failure.
SlotConflictResponse_as400 == jsonResponse(Body(FALSE, "slot already booked", ""), 400)
SlotConflictResponse  == jsonResponse(Body(FALSE, "slot already booked", ""), 409)
BookingDoneResponse   == jsonResponse(Body(TRUE, "booking completed", ""), 200)
\* bookings.ts:119-125, the catch around createCalendarEvent .. insertBooking
BookingErrorResponse  == jsonResponse(Body(FALSE, "error while creating booking", ""), 500)
\* index.ts:138-142, fetch's catch: the thrown error's own message
UncaughtResponse(message) == jsonResponse(Body(FALSE, "", message), 500)

\* The messages of the errors the upstream calls throw.
DecryptErrorText == "OperationError"
RefreshErrorText == "Token refresh failed: 400 invalid_grant"
ListErrorText    == "Calendar API error: 503 backend"
CreateErrorText  == "Calendar event creation failed: 503 backend"
InsertErrorText  == "D1_ERROR"
OwnerMailErrorText  == "Owner notification failed: Resend API error: 500"
BookerMailErrorText == "Booker confirmation failed: Resend API error: 500"

Respond(r, resp) ==
    /\ response' = [response EXCEPT ![r] = resp]
    /\ pc' = [pc EXCEPT ![r] = "Done"]

Goto(r, label) ==
    /\ pc' = [pc EXCEPT ![r] = label]
    /\ UNCHANGED response

Called(r, ops) == calls' = [calls EXCEPT ![r] = calls[r] \o ops]

Logged(r, lines) == errlog' = [errlog EXCEPT ![r] = errlog[r] \o lines]

\* ------------------------------------------------------------------ Init
\* No slots request has arrived.
NoQuery == [slug |-> "", date |-> 0]

NoSlotsResponse == jsonResponse(<<>>, 0)

\* calculateSlots is not running.
NoSlotLocal ==
    [current |-> 0, endTime |-> 0, duration |-> [nan |-> TRUE, n |-> 0],
     timeZone |-> ""]

SlotsIdle ==
    /\ slotsPc = "idle"
    /\ query = NoQuery
    /\ busy = {}
    /\ slotsResponse = NoSlotsResponse
    /\ slotLocal = NoSlotLocal

\* No booking request has arrived.
BookingsIdle ==
    /\ pc = [r \in Reqs |-> "idle"]
    /\ req = [r \in Reqs |-> NoInput]
    /\ user = [r \in Reqs |-> NoUser]
    /\ conf = [r \in Reqs |-> [calendarId |-> "", ownerEmail |-> "", timezone |-> ""]]
    /\ refreshToken = [r \in Reqs |-> <<>>]
    /\ accessToken = [r \in Reqs |-> NoToken]
    /\ events = [r \in Reqs |-> {}]
    /\ eventId = [r \in Reqs |-> NoEventId]
    /\ response = [r \in Reqs |-> NoResponse]
    /\ calls = [r \in Reqs |-> <<>>]
    /\ errlog = [r \in Reqs |-> <<>>]

\* Nothing has been given to encrypt.
VaultIdle ==
    /\ vaultPc = "idle"
    /\ vaultIn = [plaintext |-> <<>>, secret |-> "", opener |-> "",
                  tampering |-> "none"]
    /\ vaultBlob = EmptyBlob
    /\ vaultOut = [ok |-> FALSE, pt |-> <<>>]

\* No sign-in or dashboard request is in flight, no account has signed in.
Subs == {"g1", "g2"}

Clients == {"c1", "c2"}

NoLocal ==
    [sub |-> "", enc |-> EmptyBlob, userId |-> 0, slug |-> <<>>,
     body |-> <<>>]

NoAccountResponse == [route |-> "", status |-> 0, shows |-> {}]

AccountIdle ==
    /\ google = [g \in Subs |-> 0]
    /\ acctPc = [c \in Clients |-> "idle"]
    /\ acctLocal = [c \in Clients |-> NoLocal]
    /\ sessions = {}
    /\ lastResponse = NoAccountResponse

\* An access token of the provider: when it was issued and for how long.
NoAccessToken == [iat |-> 0, ttl |-> 0]

\* settings.ts:96  let cachedToken = null
NoCachedToken == [token |-> NoAccessToken, expiresAt |-> 0, set |-> FALSE]

NoTokenLocal == [start |-> 0, token |-> NoAccessToken]

NoCall == [source |-> "", token |-> NoAccessToken, recorded |-> 0,
           start |-> 0]

\* The isolate has started and no caller is in getAccessToken.
CacheIdle ==
    /\ cachedToken = NoCachedToken
    /\ tokenPc = [c \in Clients |-> "idle"]
    /\ tokenLocal = [c \in Clients |-> NoTokenLocal]
    /\ lastCall = NoCall

Init ==
    /\ now = 0
    /\ users = InitUsers
    /\ settings = InitSettings
    /\ bookings = <<>>
    /\ calendar \in
         { [c \in CalendarIds |-> {}],
           [c \in CalendarIds |->
               IF c = "alice@cal"
               THEN {[id |-> <<0, 1>>, start |-> 2, end |-> 3, by |-> 0]}
               ELSE {}] }
    /\ BookingsIdle
    /\ SlotsIdle
    /\ VaultIdle
    /\ AccountIdle
    /\ CacheIdle

\* --------------------------------------------------------------- actions
\* The clock advances.
Tick ==
    /\ now < MaxTime
    /\ now' = now + 1
    /\ UNCHANGED <<cacheVars, accountVars, slotsVars, vaultVars, users, settings, bookings, calendar, pc, req, user, conf,
                   refreshToken, accessToken, events, eventId, response,
                   calls, errlog>>

\* bookings.ts:18-27  request.json(), the required-field check, getUserBySlug
\* (requests are numbered in the order they arrive)
CreateValidate(r) ==
    /\ pc[r] = "idle"
    /\ r > 1 => pc[r - 1] # "idle"
    /\ \E in \in BookingInputs :
        /\ req' = [req EXCEPT ![r] = in]
        /\ IF MissingRequired(in)
           THEN /\ Respond(r, MissingFieldsResponse)
                /\ UNCHANGED <<user, calls>>
           ELSE LET u == getUserBySlug(users, in.slug) IN
                /\ Called(r, <<"getUserBySlug">>)
                /\ IF u = NoUser
                   THEN /\ Respond(r, UserNotFoundResponse)
                        /\ UNCHANGED user
                   ELSE /\ user' = [user EXCEPT ![r] = u]
                        /\ Goto(r, "getSettings")
    /\ UNCHANGED <<cacheVars, accountVars, slotsVars, vaultVars, now, users, settings, bookings, calendar, conf,
                   refreshToken, accessToken, events, eventId, errlog>>

\* bookings.ts:29-42  getSettings, the calendarId check, the past-date check
\* and decrypt of the row's refresh_token (no shared state is read after
\* getSettings, so these run as one step)
CreateGetSettings(r) ==
    /\ pc[r] = "getSettings"
    /\ LET s == getSettings(settings, user[r].id)
           d == decrypt(user[r].refresh_token, ENCRYPTION_KEY)
       IN
       /\ conf' = [conf EXCEPT ![r] = s]
       /\ IF s.calendarId = ""
          THEN /\ Respond(r, NoCalendarResponse)
               /\ Called(r, <<"getSettings">>)
               /\ UNCHANGED refreshToken
          ELSE
          IF IsPastStart(req[r].start, now)
          THEN /\ Respond(r, PastDateResponse)
               /\ Called(r, <<"getSettings">>)
               /\ UNCHANGED refreshToken
          ELSE
          /\ Called(r, <<"getSettings", "decrypt">>)
          /\ IF d.ok
             THEN /\ refreshToken' = [refreshToken EXCEPT ![r] = d.pt]
                  /\ Goto(r, "refreshAccessToken")
             ELSE /\ Respond(r, UncaughtResponse(DecryptErrorText))
                  /\ UNCHANGED refreshToken
    /\ UNCHANGED <<cacheVars, accountVars, slotsVars, vaultVars, now, users, settings, bookings, calendar, req, user,
                   accessToken, events, eventId, errlog>>

\* bookings.ts:43  refreshAccessToken (oauth.ts: throws on a non-ok response)
CreateRefreshAccessToken(r) ==
    /\ pc[r] = "refreshAccessToken"
    /\ Called(r, <<"refreshAccessToken">>)
    /\ \E ok \in BOOLEAN :
        IF ok
        THEN /\ accessToken' = [accessToken EXCEPT
                                   ![r] = AccessTokenFor(refreshToken[r])]
             /\ Goto(r, "ConflictChecking")
        ELSE /\ Respond(r, UncaughtResponse(RefreshErrorText))
             /\ UNCHANGED accessToken
    /\ UNCHANGED <<cacheVars, accountVars, slotsVars, vaultVars, now, users, settings, bookings, calendar, req, user, conf,
                   refreshToken, events, eventId, errlog>>

\* bookings.ts:45-58  the double-booking check: getCalendarEvents for
\* [start, end) and the 409 when it returns anything
CreateGetCalendarEvents(r) ==
    /\ pc[r] = "ConflictChecking"
    /\ Called(r, <<"getCalendarEvents">>)
    /\ \E ok \in BOOLEAN :
        IF ok
        THEN LET found == EventsInRange(calendar[conf[r].calendarId],
                                        req[r].start, req[r].end)
             IN /\ events' = [events EXCEPT ![r] = found]
                /\ IF HasConflict(found)
                   THEN Respond(r, SlotConflictResponse)
                   ELSE Goto(r, "CalendarWriting")
        ELSE /\ Respond(r, UncaughtResponse(ListErrorText))
             /\ UNCHANGED events
    /\ UNCHANGED <<cacheVars, accountVars, slotsVars, vaultVars, now, users, settings, bookings, calendar, req, user, conf,
                   refreshToken, accessToken, eventId, errlog>>

\* bookings.ts:119-125  the catch of the try block: log, generic 500
CatchBookingError(r, error) ==
    /\ Logged(r, <<error>>)
    /\ Respond(r, BookingErrorResponse)

\* Mutant: the failure of createCalendarEvent is swallowed and the
\* transaction goes on to persist.
CreateEventFailed_swallowed(r) ==
    /\ Goto(r, "Persisting")
    /\ UNCHANGED <<calendar, eventId, errlog>>

\* Mutant: a failed createCalendarEvent is tried again.
CreateEventFailed_retried(r) ==
    /\ Goto(r, "CalendarWriting")
    /\ UNCHANGED <<calendar, eventId, errlog>>

\* bookings.ts:66-74 when createCalendarEvent throws (calendar.ts:80-83):
\* control leaves the try block for its catch
CreateEventFailed(r) ==
    /\ CatchBookingError(r, CreateErrorText)
    /\ UNCHANGED <<calendar, eventId>>

\* bookings.ts:60-74  createCalendarEvent (calendar.ts:53-87)
CreateCalendarEvent(r) ==
    /\ pc[r] = "CalendarWriting"
    /\ Called(r, <<"createCalendarEvent">>)
    /\ \E ok \in BOOLEAN :
        IF ok
        THEN LET id == NewEventId(calendar, r)
                 c  == conf[r].calendarId
             IN /\ calendar' = [calendar EXCEPT ![c] = calendar[c] \cup
                       {[id |-> id, start |-> req[r].start,
                         end |-> req[r].end, by |-> r]}]
                /\ eventId' = [eventId EXCEPT ![r] = id]
                /\ Goto(r, "Persisting")
                /\ UNCHANGED errlog
        ELSE CreateEventFailed(r)
    /\ UNCHANGED <<cacheVars, accountVars, slotsVars, vaultVars, now, users, settings, bookings, req, user, conf,
                   refreshToken, accessToken, events>>

\* bookings.ts:93  settings.ownerEmail && env.RESEND_API_KEY
WantsMail(s) == s.ownerEmail # "" /\ RESEND_API_KEY # ""

\* Mutant: the table has a uniqueness constraint on (user_id, start, end) and
\* the insert is INSERT OR IGNORE.
insertBooking_orIgnore(db, userId, booking) ==
    IF \E i \in DOMAIN db : /\ db[i].user_id = userId
                             /\ db[i].start_iso = booking.start
                             /\ db[i].end_iso = booking.end
    THEN db
    ELSE Append(db, [user_id |-> userId, start_iso |-> booking.start,
                     end_iso |-> booking.end, event_id |-> booking.eventId,
                     by |-> booking.by])

\* Mutant: the insert is an upsert keyed on (user_id, start): it overwrites
\* the record already stored for that start.
insertBooking_upsert(db, userId, booking) ==
    LET rec == [user_id |-> userId, start_iso |-> booking.start,
                end_iso |-> booking.end, event_id |-> booking.eventId,
                by |-> booking.by]
        hit == {i \in DOMAIN db : db[i].user_id = userId
                                  /\ db[i].start_iso = booking.start}
    IN IF hit = {} THEN Append(db, rec)
       ELSE [i \in DOMAIN db |-> IF i \in hit THEN rec ELSE db[i]]

\* insertBooking (db.ts): one INSERT INTO bookings
insertBooking(db, userId, booking) ==
    Append(db, [user_id |-> userId, start_iso |-> booking.start,
                end_iso |-> booking.end, event_id |-> booking.eventId,
                by |-> booking.by])

\* the rows of a result set, last inserted first (ORDER BY created_at DESC)
NewestFirst(rows) == [i \in 1..Len(rows) |-> rows[Len(rows) + 1 - i]]

\* Mutant: the SELECT has no WHERE clause.
getBookings_everyTenant(db, userId) == NewestFirst(db)

\* part_002:308-316  SELECT * FROM bookings WHERE user_id = ? ORDER BY
\* created_at DESC
getBookings(db, userId) ==
    NewestFirst(SelectSeq(db, LAMBDA b : b.user_id = userId))

\* bookings.ts:76-93  insertBooking, then the choice to send mail
CreateInsertBooking(r) ==
    /\ pc[r] = "Persisting"
    /\ Called(r, <<"insertBooking">>)
    /\ \E ok \in BOOLEAN :
        IF ok
        THEN /\ bookings' = insertBooking(bookings, user[r].id,
                    [start |-> req[r].start, end |-> req[r].end,
                     eventId |-> eventId[r], by |-> r])
             /\ UNCHANGED errlog
             /\ IF WantsMail(conf[r])
                THEN Goto(r, "Notifying")
                ELSE Respond(r, BookingDoneResponse)
        ELSE /\ CatchBookingError(r, InsertErrorText)
             /\ UNCHANGED bookings
    /\ UNCHANGED <<cacheVars, accountVars, slotsVars, vaultVars, now, users, settings, calendar, req, user, conf,
                   refreshToken, accessToken, events, eventId>>

\* Mutant: the sends are not wrapped, a failure reaches the catch of the try
\* block.
NotificationOutcome_propagates(r, okOwner, okBooker) ==
    IF okOwner /\ okBooker
    THEN /\ UNCHANGED errlog
         /\ Respond(r, BookingDoneResponse)
    ELSE /\ Logged(r, <<IF okOwner THEN BookerMailErrorText
                                   ELSE OwnerMailErrorText>>)
         /\ Respond(r, BookingErrorResponse)

\* bookings.ts:94-118  what the two sends leave behind: each failure is caught
\* by its own try/catch and logged, and the success response follows
NotificationOutcome(r, okOwner, okBooker) ==
    /\ Logged(r, (IF okOwner THEN <<>> ELSE <<OwnerMailErrorText>>)
                 \o (IF okBooker THEN <<>> ELSE <<BookerMailErrorText>>))
    /\ Respond(r, BookingDoneResponse)

\* bookings.ts:94-118  sendOwnerNotification and sendBookerConfirmation (the
\* mail service is read by nobody, so the two sends run as one step)
CreateSendNotifications(r) ==
    /\ pc[r] = "Notifying"
    /\ Called(r, <<"sendOwnerNotification", "sendBookerConfirmation">>)
    /\ \E okOwner, okBooker \in BOOLEAN :
        NotificationOutcome(r, okOwner, okBooker)
    /\ UNCHANGED <<cacheVars, accountVars, slotsVars, vaultVars, now, users, settings, bookings, calendar, req, user, conf,
                   refreshToken, accessToken, events, eventId>>

Next ==
    \/ Tick
    \/ \E r \in Reqs : CreateValidate(r)
    \/ \E r \in Reqs : CreateGetSettings(r)
    \/ \E r \in Reqs : CreateRefreshAccessToken(r)
    \/ \E r \in Reqs : CreateGetCalendarEvents(r)
    \/ \E r \in Reqs : CreateCalendarEvent(r)
    \/ \E r \in Reqs : CreateInsertBooking(r)
    \/ \E r \in Reqs : CreateSendNotifications(r)

Spec == Init /\ [][Next]_vars

\* ------------------------------------------------------------ civil time
\* Instants are minutes since 2026-03-07T00:00:00Z; a date string is the
\* number of days after 2026-03-07 (a Saturday).  Every value the slots code
\* handles is a whole number of minutes.
MaxDay == 3              \* the date parameter runs over 2026-03-07 .. +MaxDay

Dates == 0..MaxDay

MinutesPerDay == 24 * 60

\* The zones of the tenants and of the host.  The Workers runtime keeps the
\* local zone of Date at UTC.
Zones == {"Asia/Tokyo", "America/New_York"}

HostZone == "UTC"

\* 2026-03-08T07:00:00Z, when America/New_York goes from UTC-5 to UTC-4
SpringForward == MinutesPerDay + 7 * 60

\* The zone's offset from UTC in force at instant t (tz database, as
\* Intl.DateTimeFormat applies it).
TzOffset(tz, t) ==
    CASE tz = "Asia/Tokyo"       -> 9 * 60
      [] tz = "America/New_York" -> IF t < SpringForward THEN -(5 * 60)
                                                         ELSE -(4 * 60)
      [] OTHER                   -> 0

\* The civil time Intl.DateTimeFormat({timeZone: tz}) shows for instant t, as
\* minutes since 2026-03-07 00:00 on the zone's clock.
CivilTime(tz, t) == t + TzOffset(tz, t)

\* weekday (0 = Sunday) of the day that lies d days after 2026-03-07
WeekdayOfDate(d) == (d + 6) % 7

\* calendar.ts:98-103  format(date) with weekday: 'short', through dayMap
FormatWeekday(tz, t) == WeekdayOfDate(CivilTime(tz, t) \div MinutesPerDay)

\* calendar.ts:142-153  formatToParts with hour and minute
FormatHour(tz, t) == (CivilTime(tz, t) % MinutesPerDay) \div 60

FormatMinute(tz, t) == CivilTime(tz, t) % 60

\* new Date(`${dateStr}T${hh}:00:00`): a date-time string without an offset is
\* read on the host's clock.
ParseLocal(dateStr, hh) ==
    LET civil == dateStr * MinutesPerDay + hh * 60
    IN  civil - TzOffset(HostZone, civil)

\* new Date(dateStr + 'T00:00:00Z') and new Date('YYYY-MM-DD'): UTC midnight
ParseUTC(dateStr) == dateStr * MinutesPerDay

\* calendar.ts:170-192  the parts of `date` on the zone's clock, put back
\* together with Date.UTC, minus date.getTime()
getTimezoneOffsetMs(tz, date) ==
    LET civil  == CivilTime(tz, date)
        day    == civil \div MinutesPerDay
        hour   == (civil % MinutesPerDay) \div 60
        minute == civil % 60
        utcFromLocal == day * MinutesPerDay + hour * 60 + minute
    IN  utcFromLocal - date

\* ----------------------------------------------------------- calculateSlots
\* calendar.ts:95  settings.timezone || 'Asia/Tokyo'
TimezoneOf(s) == IF s.timezone = "" THEN "Asia/Tokyo" ELSE s.timezone

\* calendar.ts:96-103  the weekday tested against availableDays: the weekday
\* the tenant's zone shows for host-local midnight of dateStr
dayOfWeek(dateStr, s) == FormatWeekday(TimezoneOf(s), ParseLocal(dateStr, 0))

\* calendar.ts:109-117  the window: startHour:00 and endHour:00 of dateStr read
\* on the host's clock, both moved by the zone's offset at the first of them
SlotWindow(dateStr, s) ==
    LET slotStartLocal == ParseLocal(dateStr, s.startHour)
        slotEndLocal   == ParseLocal(dateStr, s.endHour)
        utcOffsetMs    == getTimezoneOffsetMs(TimezoneOf(s), slotStartLocal)
    IN  [start |-> slotStartLocal - utcOffsetMs,
         end   |-> slotEndLocal - utcOffsetMs]

\* calendar.ts:124  busyPeriods.some(b => b.isAllDay)
hasAllDayEvent(busyPeriods) == \E b \in busyPeriods : b.isAllDay

\* Mutant: a period that touches the slot counts as overlapping it.
SlotOverlaps_touching(current, currentEnd, b) ==
    current <= b.end /\ currentEnd >= b.start

\* calendar.ts:138  current < busy.end && currentEnd > busy.start
SlotOverlaps(current, currentEnd, b) ==
    current < b.end /\ currentEnd > b.start

\* calendar.ts:136-138
isConflict(current, currentEnd, busyPeriods) ==
    \/ hasAllDayEvent(busyPeriods)
    \/ \E b \in busyPeriods : SlotOverlaps(current, currentEnd, b)

\* Mutant: a slot counts as past while it has not started yet.
isPast_upcoming(current, t) == current > t

\* Mutant: a slot that starts at the evaluation instant is past.
isPast_orNow(current, t) == current <= t

\* calendar.ts:135  current < now
isPast(current, t) == current < t

\* calendar.ts:134-162  one pass of the loop body: the TimeSlot pushed
TimeSlot(current, currentEnd, busyPeriods, tz, t) ==
    [start       |-> current,
     end         |-> currentEnd,
     startHour   |-> FormatHour(tz, current),
     startMinute |-> FormatMinute(tz, current),
     endHour     |-> FormatHour(tz, currentEnd),
     endMinute   |-> FormatMinute(tz, currentEnd),
     available   |-> ~isConflict(current, currentEnd, busyPeriods)
                     /\ ~isPast(current, t),
     isPast      |-> isPast(current, t),
     isBusy      |-> isConflict(current, currentEnd, busyPeriods)]

\* Mutant: the loop goes on while the slot starts before the window's end.
RECURSIVE SlotLoop_overrun(_, _, _, _, _, _)
SlotLoop_overrun(current, endTime, durationMs, busyPeriods, tz, t) ==
    IF current < endTime
    THEN <<TimeSlot(current, current + durationMs, busyPeriods, tz, t)>>
         \o SlotLoop_overrun(current + durationMs, endTime, durationMs,
                             busyPeriods, tz, t)
    ELSE <<>>

\* calendar.ts:130-165  while (current + durationMs <= endTime)
RECURSIVE SlotLoop(_, _, _, _, _, _)
SlotLoop(current, endTime, durationMs, busyPeriods, tz, t) ==
    IF current + durationMs <= endTime
    THEN <<TimeSlot(current, current + durationMs, busyPeriods, tz, t)>>
         \o SlotLoop(current + durationMs, endTime, durationMs, busyPeriods,
                     tz, t)
    ELSE <<>>

\* calendar.ts:90-168  calculateSlots(dateStr, events, settings) evaluated
\* when Date.now() is t
calculateSlots(dateStr, evs, s, t) ==
    IF dayOfWeek(dateStr, s) \notin s.availableDays
    THEN <<>>
    ELSE LET w == SlotWindow(dateStr, s)
         IN  SlotLoop(w.start, w.end, s.duration, evs, TimezoneOf(s), t)

\* ------------------------------------------------------------ slots route
\* GET /api/u/:slug/slots?date=  (src/src/routes/slots.ts), on its own: one
\* request against a tenant whose settings, remote calendar and clock are
\* drawn at the start.

\* <<startHour, endHour, duration>> as stored: windows the duration divides,
\* one it does not divide, early hours, and windows that admit no slot
SlotHours ==
    {<<9, 17, 60>>, <<9, 11, 30>>, <<9, 11, 45>>, <<0, 5, 60>>, <<6, 9, 60>>,
     <<10, 10, 60>>, <<17, 9, 60>>}

AvailableDaySets == {{1, 2, 3, 4, 5}, {0, 6}, {0, 1, 2, 3, 4, 5, 6}}

\* The Settings getSettings returns for the tenant (part_002:203-225).
SlotSettings ==
    { [calendarId    |-> "alice@cal",
       ownerEmail    |-> "owner@mail",
       timezone      |-> tz,
       startHour     |-> h[1],
       endHour       |-> h[2],
       duration      |-> h[3],
       availableDays |-> days] :
      tz \in Zones \cup {""}, h \in SlotHours, days \in AvailableDaySets }

\* Events as getCalendarEvents maps them (calendar.ts:40-49): a timed event
\* carries its dateTime instants, an all-day event its dates, which
\* new Date(...) reads as UTC midnight.
TimedEvent(start, end) == [start |-> start, end |-> end, isAllDay |-> FALSE]

AllDayEvent(d) ==
    [start |-> ParseUTC(d), end |-> ParseUTC(d + 1), isAllDay |-> TRUE]

\* A calendar with more events in three days than one page holds: a run of
\* one-minute events through the first hours of 2026-03-07 and a meeting on
\* 2026-03-08.
CrowdedCalendar ==
    {TimedEvent(m, m + 1) : m \in 0..(MaxResults - 1)}
    \cup {TimedEvent(MinutesPerDay, MinutesPerDay + 60)}

\* What the tenant's remote calendar may hold.
SlotCalendars ==
    { {},
      {TimedEvent(MinutesPerDay, MinutesPerDay + 60)},
      {TimedEvent(MinutesPerDay + 30, MinutesPerDay + 90)},
      {TimedEvent(MinutesPerDay + 13 * 60, MinutesPerDay + 14 * 60)},
      {AllDayEvent(0)},
      {AllDayEvent(1)},
      {AllDayEvent(2)},
      {AllDayEvent(1), TimedEvent(MinutesPerDay, MinutesPerDay + 60)},
      CrowdedCalendar }

\* Date.now() when the request runs: before every slot, at the boundary of
\* two slots, after every slot
SlotNows == {-MinutesPerDay, MinutesPerDay + 60, 9 * MinutesPerDay}

SlotSlugs == {"alice", "carol", "dave", "ghost"}

SlotInit ==
    /\ now \in SlotNows
    /\ users = InitUsers
    /\ settings \in {[InitSettings EXCEPT ![1] = s] : s \in SlotSettings}
    /\ bookings = <<>>
    /\ calendar \in
         { [c \in CalendarIds |-> IF c = "alice@cal" THEN evs ELSE {}] :
           evs \in SlotCalendars }
    /\ BookingsIdle
    /\ SlotsIdle
    /\ VaultIdle
    /\ AccountIdle
    /\ CacheIdle

\* slots.ts:21, 26, 32 and index.ts:138-142: { error: text }
SlotsErrorResponse(text, status) == jsonResponse(Body(FALSE, "", text), status)

\* slots.ts:39-41  the window asked of the calendar: from the day before
\* dateStr (UTC midnight) to two days after it
FetchWindow(dateStr) ==
    [timeMin |-> ParseUTC(dateStr) - MinutesPerDay,
     timeMax |-> ParseUTC(dateStr) + 2 * MinutesPerDay]

\* slots.ts:12-48  from the request, which carries a date parameter, to the
\* answer of getCalendarEvents
SlotsFetch ==
    /\ slotsPc = "idle"
    /\ \E slug \in SlotSlugs, d \in Dates, okRefresh \in BOOLEAN,
          okList \in BOOLEAN :
        LET u == getUserBySlug(users, slug)
            s == getSettings(settings, u.id)
            w == FetchWindow(d)
            fail(text, status) ==
                /\ slotsResponse' = SlotsErrorResponse(text, status)
                /\ slotsPc' = "Done"
                /\ UNCHANGED busy
        IN
        /\ query' = [slug |-> slug, date |-> d]
        /\ UNCHANGED slotLocal
        /\ IF u = NoUser THEN fail("user not found", 404)
           ELSE IF s.calendarId = "" THEN fail("calendar not configured", 400)
           ELSE IF ~decrypt(u.refresh_token, ENCRYPTION_KEY).ok
                THEN fail(DecryptErrorText, 500)
           ELSE IF ~okRefresh THEN fail(RefreshErrorText, 500)
           ELSE IF ~okList THEN fail(ListErrorText, 500)
           ELSE /\ busy' = EventsInRange(calendar[s.calendarId],
                                         w.timeMin, w.timeMax)
                /\ slotsPc' = "calculateSlots"
                /\ UNCHANGED slotsResponse
    /\ UNCHANGED <<cacheVars, accountVars, vaultVars, now, users, settings, bookings, calendar, pc, req,
                   user,
                   conf, refreshToken, accessToken, events, eventId, response,
                   calls, errlog>>

\* slots.ts:50-51  calculateSlots and the response
SlotsCalculate ==
    /\ slotsPc = "calculateSlots"
    /\ LET s == getSettings(settings, getUserBySlug(users, query.slug).id)
       IN  slotsResponse' =
               jsonResponse(calculateSlots(query.date, busy, s, now), 200)
    /\ slotsPc' = "Done"
    /\ UNCHANGED <<cacheVars, accountVars, vaultVars, now, users, settings, bookings, calendar, pc, req,
                   user,
                   conf, refreshToken, accessToken, events, eventId, response,
                   calls, errlog, query, busy, slotLocal>>

SlotNext ==
    \/ SlotsFetch
    \/ SlotsCalculate

SlotSpec == SlotInit /\ [][SlotNext]_vars

\* ------------------------------------------------------- vault round trip
\* encrypt and decrypt of crypto.ts on their own: a plaintext and a secret are
\* drawn at the start, the plaintext is sealed, the blob may be altered while
\* it is stored, and it is opened under the same or under another secret.
RECURSIVE StringsOfLength(_)
StringsOfLength(n) ==
    IF n = 0 THEN {<<>>}
    ELSE {<<c>> \o str : c \in CodeUnits, str \in StringsOfLength(n - 1)}

Plaintexts == UNION {StringsOfLength(n) : n \in 0..MaxLen}

Secrets == {ENCRYPTION_KEY, "rotated"}

\* what happens to the stored blob before it is opened
Tamperings == {"none", "nonce", "ciphertext", "tag", "truncated", "empty"}

VaultInit ==
    /\ now = 0
    /\ users = InitUsers
    /\ settings = InitSettings
    /\ bookings = <<>>
    /\ calendar = [c \in CalendarIds |-> {}]
    /\ BookingsIdle
    /\ SlotsIdle
    /\ vaultPc = "idle"
    /\ vaultIn \in [plaintext : Plaintexts, secret : Secrets,
                    opener : Secrets, tampering : Tamperings]
    /\ vaultBlob = EmptyBlob
    /\ vaultOut = [ok |-> FALSE, pt |-> <<>>]
    /\ AccountIdle
    /\ CacheIdle

\* crypto.ts:31-48  encrypt(x, k)
VaultEncrypt ==
    /\ vaultPc = "idle"
    /\ \E iv \in Ivs :
        vaultBlob' = encrypt(vaultIn.plaintext, vaultIn.secret, iv)
    /\ vaultPc' = "sealed"
    /\ UNCHANGED <<cacheVars, accountVars, slotsVars, now, users, settings, bookings, calendar, pc,
                   req, user, conf, refreshToken, accessToken, events,
                   eventId, response, calls, errlog, vaultIn, vaultOut>>

\* The bytes of a blob after an alteration of the given kind: another nonce,
\* another value of one ciphertext byte, a tag made for other data, a proper
\* prefix of the bytes, or no bytes at all.
Altered(bytes, kind) ==
    LET n == Len(bytes) IN
    CASE kind = "nonce" ->
           {[bytes EXCEPT ![1] = v] : v \in {0, 1, 2} \ {bytes[1]}}
      [] kind = "ciphertext" ->
           {[bytes EXCEPT ![i] = [at |-> i - 1, val |-> (bytes[i].val + 1) % 256]] :
              i \in 2..(n - 1)}
      [] kind = "tag" ->
           {[bytes EXCEPT ![n] = [at |-> 0, val |-> bytes[n].val \o <<0>>,
                                  key |-> bytes[n].key, iv |-> bytes[n].iv]]}
      [] kind = "truncated" ->
           {SubSeq(bytes, 1, m) : m \in 1..(n - 1)}
      [] kind = "empty" -> {<<>>}
      [] OTHER -> {}

\* The stored blob is altered before decrypt reads it.
VaultTamper ==
    /\ vaultPc = "sealed"
    /\ \E bytes \in Altered(atob(vaultBlob), vaultIn.tampering) :
        vaultBlob' = btoa(bytes)
    /\ vaultPc' = "altered"
    /\ UNCHANGED <<cacheVars, accountVars, slotsVars, now, users, settings, bookings, calendar, pc,
                   req, user, conf, refreshToken, accessToken, events,
                   eventId, response, calls, errlog, vaultIn, vaultOut>>

\* crypto.ts:51-65  decrypt(blob, k')
VaultDecrypt ==
    /\ \/ vaultPc = "sealed" /\ vaultIn.tampering = "none"
       \/ vaultPc = "altered"
    /\ vaultOut' = decrypt(vaultBlob, vaultIn.opener)
    /\ vaultPc' = "Done"
    /\ UNCHANGED <<cacheVars, accountVars, slotsVars, now, users, settings, bookings, calendar, pc,
                   req, user, conf, refreshToken, accessToken, events,
                   eventId, response, calls, errlog, vaultIn, vaultBlob>>

VaultNext ==
    \/ VaultEncrypt
    \/ VaultTamper
    \/ VaultDecrypt

VaultSpec == VaultInit /\ [][VaultNext]_vars

\* ---------------------------------------------------- accounts: JS values
\* Text is a sequence of one-character strings.  A JS number is a record that
\* says whether it is NaN.
NaN == [nan |-> TRUE, n |-> 0]

JsNum(n) == [nan |-> FALSE, n |-> n]

Digits == <<"0", "1", "2", "3", "4", "5", "6", "7", "8", "9">>

IsDigit(ch) == \E d \in DOMAIN Digits : Digits[d] = ch

DigitVal(ch) == (CHOOSE d \in DOMAIN Digits : Digits[d] = ch) - 1

\* the decimal digits of a natural number
RECURSIVE Decimal(_)
Decimal(n) ==
    IF n < 10 THEN <<Digits[n + 1]>>
    ELSE Decimal(n \div 10) \o <<Digits[(n % 10) + 1]>>

\* String(value) of an integer
NumberToString(n) == IF n < 0 THEN <<"-">> \o Decimal(-n) ELSE Decimal(n)

\* the value of a run of digits read from the left, acc being what was read
RECURSIVE DigitsValue(_, _)
DigitsValue(text, acc) ==
    IF text = <<>> \/ ~IsDigit(Head(text)) THEN acc
    ELSE DigitsValue(Tail(text), 10 * acc + DigitVal(Head(text)))

\* parseInt(text, 10): an optional sign, then the longest run of digits;
\* NaN when there is no digit there
parseInt(text) ==
    LET neg  == text # <<>> /\ Head(text) = "-"
        body == IF neg THEN Tail(text) ELSE text
    IN  IF body = <<>> \/ ~IsDigit(Head(body)) THEN NaN
        ELSE JsNum((IF neg THEN -1 ELSE 1) * DigitsValue(body, 0))

\* Number(text): 0 for the empty text, the integer when the whole text is one,
\* NaN otherwise
Number(text) ==
    LET neg  == text # <<>> /\ Head(text) = "-"
        body == IF neg THEN Tail(text) ELSE text
    IN  IF text = <<>> THEN JsNum(0)
        ELSE IF body # <<>> /\ \A i \in DOMAIN body : IsDigit(body[i])
        THEN JsNum((IF neg THEN -1 ELSE 1) * DigitsValue(body, 0))
        ELSE NaN

\* text.split(',')
RECURSIVE Split(_)
Split(text) ==
    IF \E i \in DOMAIN text : text[i] = ","
    THEN LET i == CHOOSE k \in DOMAIN text :
                      text[k] = "," /\ \A j \in 1..(k - 1) : text[j] # ","
         IN  <<SubSeq(text, 1, i - 1)>> \o Split(SubSeq(text, i + 1, Len(text)))
    ELSE <<text>>

\* parts.join(',')
RECURSIVE Join(_)
Join(parts) ==
    IF parts = <<>> THEN <<>>
    ELSE IF Len(parts) = 1 THEN parts[1]
    ELSE parts[1] \o <<",">> \o Join(Tail(parts))

\* JSON values of a request body: a number, a string or an array of numbers.
JNumber(n) == [type |-> "number", n |-> n, text |-> <<>>, items |-> <<>>]

JString(text) == [type |-> "string", n |-> 0, text |-> text, items |-> <<>>]

JArray(items) == [type |-> "array", n |-> 0, text |-> <<>>, items |-> items]

\* db.ts saveSettings: Array.isArray(value) ? value.join(',') : String(value)
StrValue(value) ==
    CASE value.type = "number" -> NumberToString(value.n)
      [] value.type = "string" -> value.text
      [] OTHER -> Join([i \in DOMAIN value.items |->
                           NumberToString(value.items[i])])

\* ------------------------------------------------------- accounts: tables
\* The Google accounts that sign in: sub, email and name as getUserInfo
\* returns them.  The two addresses give the same slug base.
GoogleAccounts ==
    { [sub |-> "g1", email |-> <<"a", "m", "y", "@", "x">>, name |-> <<"A", "m", "y">>],
      [sub |-> "g2", email |-> <<"A", ".", "m", "y", "@", "y">>, name |-> <<"A", "l">>] }

\* users.id (INTEGER PRIMARY KEY AUTOINCREMENT): one per account at most
AccountIds == 1..Cardinality(GoogleAccounts)

Lower ==
    <<"a", "b", "c", "d", "e", "f", "g", "h", "i", "j", "k", "l", "m",
      "n", "o", "p", "q", "r", "s", "t", "u", "v", "w", "x", "y", "z">>

Upper ==
    <<"A", "B", "C", "D", "E", "F", "G", "H", "I", "J", "K", "L", "M",
      "N", "O", "P", "Q", "R", "S", "T", "U", "V", "W", "X", "Y", "Z">>

\* ch.toLowerCase()
ToLowerChar(ch) ==
    IF \E i \in DOMAIN Upper : Upper[i] = ch
    THEN Lower[CHOOSE i \in DOMAIN Upper : Upper[i] = ch]
    ELSE ch

ToLowerCase(text) == [i \in DOMAIN text |-> ToLowerChar(text[i])]

IsLowerAlnum(ch) == IsDigit(ch) \/ \E i \in DOMAIN Lower : Lower[i] = ch

IsSlugChar(ch) == IsLowerAlnum(ch) \/ ch = "-" \/ ch = "_"

\* email.split('@')[0]
BeforeAt(text) ==
    IF \E i \in DOMAIN text : text[i] = "@"
    THEN SubSeq(text, 1, (CHOOSE k \in DOMAIN text :
                    text[k] = "@" /\ \A j \in 1..(k - 1) : text[j] # "@") - 1)
    ELSE text

FallbackSlug == <<"u", "s", "e", "r">>

\* auth.ts:14-20
generateSlug(email, name) ==
    LET prefix   == SelectSeq(ToLowerCase(BeforeAt(email)), IsLowerAlnum)
        fromName == SelectSeq(ToLowerCase(name), IsLowerAlnum)
    IN  IF Len(prefix) >= 3 THEN prefix
        ELSE IF fromName = <<>> THEN FallbackSlug
        ELSE SubSeq(fromName, 1, IF Len(fromName) < 20 THEN Len(fromName) ELSE 20)

\* auth.ts:23-37  the first of baseSlug, baseSlug1, baseSlug2, .. that no row
\* has, found by the loop
RECURSIVE UniqueSlugFrom(_, _, _)
UniqueSlugFrom(db, baseSlug, counter) ==
    LET slug == IF counter = 0 THEN baseSlug
                ELSE baseSlug \o NumberToString(counter)
    IN  IF \E u \in db : u.slug = slug
        THEN UniqueSlugFrom(db, baseSlug, counter + 1)
        ELSE slug

ensureUniqueSlug(db, baseSlug) == UniqueSlugFrom(db, baseSlug, 0)

\* db.ts getUserByGoogleId / getUserById: SELECT * .. .first()
NoAccount ==
    [id |-> 0, google_id |-> "", email |-> <<>>, name |-> <<>>,
     slug |-> <<>>, refresh_token |-> EmptyBlob]

getUserByGoogleId(db, googleId) ==
    IF \E u \in db : u.google_id = googleId
    THEN CHOOSE u \in db : u.google_id = googleId
    ELSE NoAccount

getUserById(db, id) ==
    IF \E u \in db : u.id = id
    THEN CHOOSE u \in db : u.id = id
    ELSE NoAccount

\* db.ts createUser: the INSERT; the UNIQUE indexes on google_id and slug
\* (0002_saas.sql:14-15) make it fail when either value is taken
InsertUserFails(db, row) ==
    \E u \in db : u.google_id = row.google_id \/ u.slug = row.slug

createUser(db, row) ==
    db \cup {[id |-> Cardinality(db) + 1, google_id |-> row.google_id,
              email |-> row.email, name |-> row.name, slug |-> row.slug,
              refresh_token |-> row.refresh_token]}

\* db.ts updateRefreshToken: UPDATE users SET refresh_token = ? WHERE id = ?
updateRefreshToken(db, userId, encryptedToken) ==
    {IF u.id = userId THEN [u EXCEPT !.refresh_token = encryptedToken] ELSE u
     : u \in db}

\* db.ts isSlugAvailable(db, slug, excludeUserId)
isSlugAvailable(db, slug, excludeUserId) ==
    ~\E u \in db : u.slug = slug /\ u.id # excludeUserId

\* Mutant: the users table has no UNIQUE index on slug.
UpdateSlugFails_noIndex(db, userId, slug) == FALSE

\* db.ts updateUser(db, userId, {slug}): fails on the UNIQUE index
UpdateSlugFails(db, userId, slug) ==
    \E u \in db : u.slug = slug /\ u.id # userId

updateUser(db, userId, slug) ==
    {IF u.id = userId THEN [u EXCEPT !.slug = slug] ELSE u : u \in db}

\* The settings table: per user, the value stored under each key (empty when
\* no row holds the key).
SettingKeys ==
    {"ownerName", "ownerEmail", "calendarId", "duration", "startHour",
     "endHour", "timezone", "maxDays", "availableDays"}

NoSettingsRows == [k \in SettingKeys |-> <<>>]

\* Mutant: the upsert is keyed on the key alone.
saveSettings_anyUser(db, userId, updates) ==
    [u \in DOMAIN db |->
        [k \in SettingKeys |->
            IF k \in DOMAIN updates THEN StrValue(updates[k]) ELSE db[u][k]]]

\* db.ts saveSettings: INSERT .. ON CONFLICT(user_id, key) DO UPDATE of the
\* stringified value of every key given
saveSettings(db, userId, updates) ==
    [db EXCEPT ![userId] =
        [k \in SettingKeys |->
            IF k \in DOMAIN updates THEN StrValue(updates[k]) ELSE db[userId][k]]]

\* db.ts initDefaultSettings: the values saved for a new user
DefaultSettings(email, name) ==
    [k \in SettingKeys |->
        CASE k = "ownerName"  -> JString(name)
          [] k = "ownerEmail" -> JString(email)
          [] k = "calendarId" -> JString(email)
          [] k = "duration"   -> JNumber(60)
          [] k = "startHour"  -> JNumber(9)
          [] k = "endHour"    -> JNumber(17)
          [] k = "timezone"   -> JString(<<"A", "s", "i", "a", "/", "T", "o", "k", "y", "o">>)
          [] k = "maxDays"    -> JNumber(30)
          [] OTHER            -> JArray(<<1, 2, 3, 4, 5>>)]

initDefaultSettings(db, userId, email, name) ==
    saveSettings(db, userId, DefaultSettings(email, name))

\* map[key] || fallback
OrElse(text, fallback) == IF text = <<>> THEN fallback ELSE text

\* db.ts getSettings lines 214-224: the Settings object built from the rows
ParseSettings(map) ==
    LET days == Split(OrElse(map["availableDays"], <<"1", ",", "2", ",", "3", ",", "4", ",", "5">>))
    IN
    [ownerName     |-> OrElse(map["ownerName"], <<"o", "w", "n", "e", "r">>),
     ownerEmail    |-> map["ownerEmail"],
     calendarId    |-> map["calendarId"],
     duration      |-> parseInt(OrElse(map["duration"], <<"6", "0">>)),
     startHour     |-> parseInt(OrElse(map["startHour"], <<"9">>)),
     endHour       |-> parseInt(OrElse(map["endHour"], <<"1", "7">>)),
     timezone      |-> OrElse(map["timezone"], <<"A", "s", "i", "a", "/", "T", "o", "k", "y", "o">>),
     maxDays       |-> parseInt(OrElse(map["maxDays"], <<"3", "0">>)),
     availableDays |-> [i \in DOMAIN days |-> Number(days[i])]]

\* session.ts: a token is header.payload.signature; it is held as its payload
\* (userId, email, exp), the number of parts a split at the dots gives, and
\* its signature.  The clock of the account routes counts seconds.
JWT_SECRET == "J"

\* session.ts:8  7 days in seconds
SESSION_DURATION == 7 * 24 * 60 * 60

\* session.ts:19-28, 45-51  HMAC-SHA256 of header.payload under the secret: it
\* is equal for equal secrets and payloads only
Hmac(secret, userId, email, exp) ==
    [key |-> secret, userId |-> userId, email |-> email, exp |-> exp]

\* session.ts:31-54  createSessionToken, called when Date.now() / 1000 is t
createSessionToken(userId, email, secret, t) ==
    [userId |-> userId, email |-> email, exp |-> t + SESSION_DURATION,
     parts  |-> 3,
     sig    |-> Hmac(secret, userId, email, t + SESSION_DURATION)]

NoCookie ==
    [userId |-> 0, email |-> <<>>, exp |-> 0, parts |-> 0,
     sig |-> Hmac("", 0, <<>>, 0)]

NoSession == [userId |-> 0, email |-> <<>>, exp |-> 0]

\* Mutant: the signature is not checked.
verifySessionToken_unsigned(token, secret, t) ==
    IF token.parts # 3 THEN NoSession
    ELSE IF token.exp < t THEN NoSession
    ELSE [userId |-> token.userId, email |-> token.email, exp |-> token.exp]

\* Mutant: the expiry is not checked.
verifySessionToken_unexpiring(token, secret, t) ==
    IF token.parts # 3 THEN NoSession
    ELSE IF token.sig # Hmac(secret, token.userId, token.email, token.exp)
    THEN NoSession
    ELSE [userId |-> token.userId, email |-> token.email, exp |-> token.exp]

\* session.ts:57-94  verifySessionToken, called when Date.now() / 1000 is t
verifySessionToken(token, secret, t) ==
    IF token.parts # 3 THEN NoSession
    ELSE IF token.sig # Hmac(secret, token.userId, token.email, token.exp)
    THEN NoSession
    ELSE IF token.exp < t THEN NoSession
    ELSE [userId |-> token.userId, email |-> token.email, exp |-> token.exp]

\* index.ts:147-150 getSession
getSession(cookie) ==
    IF cookie = NoCookie THEN NoSession
    ELSE verifySessionToken(cookie, JWT_SECRET, now)

\* ------------------------------------------------- accounts: the routes
\* GET /auth/callback (auth.ts), PUT /api/dashboard/settings (settings
\* routes), each suspended at its awaits on the database, and the read-only
\* routes, against a database that starts empty.

\* refresh tokens Google issues in a run
MaxIssue == 2             \* at most MaxIssue tokens are issued

AccountOf(sub) == CHOOSE a \in GoogleAccounts : a.sub = sub

\* the nonces crypto.getRandomValues gives encrypt in the callback
SignInIvs == {iv \in Ivs : iv[1] = 1}

\* the number of the next refresh token Google issues
NextTokenNo ==
    1 + (CHOOSE n \in 0..MaxIssue :
            /\ \E g \in Subs : google[g] = n
            /\ \A g \in Subs : google[g] <= n)

\* What a response carries: the columns, settings and other data its body and
\* headers are built from, each named <<source, id, field>>.
SettingsItems(userId) == {<<"settings", userId, k>> : k \in SettingKeys}

BookingItems(db, userId) ==
    {<<"bookings", i, col>> :
        i \in {j \in DOMAIN db : db[j].user_id = userId},
        col \in {"date", "start_time", "end_time", "name", "email",
                 "message", "created_at", "event_id"}}

UserItems(userId, cols) == {<<"users", userId, col>> : col \in cols}

AccountResponse(route, status, shows) ==
    [route |-> route, status |-> status, shows |-> shows]

\* a body of the form { error: text } written by the handler
ErrorBody(text) == {<<"literal", 0, text>>}

\* index.ts:138-142  { error: error.message } of an error a handler let go
ThrownBody(source) == {<<"error", 0, source>>}

\* Mutant: the row is returned as it was read.
MeBody_wholeRow(userId) ==
    UserItems(userId, {"id", "google_id", "email", "name", "slug",
                       "avatar_url", "refresh_token", "created_at"})

\* index.ts:72-78  the body of /api/dashboard/me
MeBody(userId) ==
    UserItems(userId, {"id", "email", "name", "slug", "avatar_url"})

\* settings getDashboard, lines 56-63
DashboardBody(userId) ==
    SettingsItems(userId)
    \cup UserItems(userId, {"slug", "email", "name", "avatar_url"})

\* settings update, lines 108-114
UpdatedBody(userId) ==
    SettingsItems(userId) \cup UserItems(userId, {"slug", "email", "name"})

\* settings getPublic, lines 32-42
PublicBody(db, userId) ==
    {<<"settings", userId, k>> :
        k \in {"ownerName", "duration", "startHour", "endHour", "timezone",
               "maxDays", "availableDays"}}
    \cup UserItems(userId, {"slug"})
    \cup {<<"bookings", userId, "monthlyCount">>}

\* auth.ts:97-106  the redirect to the dashboard: its Set-Cookie header holds
\* the session token
SignedInResponse(userId) ==
    AccountResponse("callback", 302,
        {<<"session", userId, "userId">>, <<"session", userId, "email">>,
         <<"session", userId, "exp">>})

\* auth.ts:107-110  the catch: a redirect that names no cause
AuthFailedResponse ==
    AccountResponse("callback", 302, ErrorBody("auth_failed"))

UnauthorizedResponse ==
    AccountResponse("dashboard", 401, ErrorBody("Unauthorized"))

Answer(resp) == lastResponse' = resp

\* the client's handler has returned
Return(c) ==
    /\ acctPc' = [acctPc EXCEPT ![c] = "idle"]
    /\ acctLocal' = [acctLocal EXCEPT ![c] = NoLocal]

Suspend(c, label, locals) ==
    /\ acctPc' = [acctPc EXCEPT ![c] = label]
    /\ acctLocal' = [acctLocal EXCEPT ![c] = locals]
    /\ lastResponse' = NoAccountResponse

\* what no account route touches
AccountFrame ==
    UNCHANGED <<cacheVars, slotsVars, vaultVars, now, bookings, calendar, pc, req, user,
                conf, refreshToken, accessToken, events, eventId, response,
                calls, errlog>>

\* auth.ts:96-106  createSessionToken and the redirect
SignIn(c, u) ==
    /\ sessions' = sessions \cup
                      {createSessionToken(u.id, u.email, JWT_SECRET, now)}
    /\ Answer(SignedInResponse(u.id))
    /\ Return(c)

\* auth.ts:60-68  exchangeCode, getUserInfo, encrypt of the refresh token when
\* the token response has one
CallbackExchangeOf(c, outcomes) ==
    /\ acctPc[c] = "idle"
    /\ \E sub \in Subs, outcome \in outcomes :
        CASE outcome = "failed" ->
               /\ Answer(AuthFailedResponse)
               /\ UNCHANGED <<google, acctPc, acctLocal>>
          [] outcome = "noRefreshToken" ->
               /\ Suspend(c, "getUserByGoogleId",
                          [NoLocal EXCEPT !.sub = sub])
               /\ UNCHANGED google
          [] OTHER ->
               /\ NextTokenNo <= MaxIssue
               /\ google' = [google EXCEPT ![sub] = NextTokenNo]
               /\ \E iv \in SignInIvs :
                    Suspend(c, "getUserByGoogleId",
                        [NoLocal EXCEPT
                            !.sub = sub,
                            !.enc = encrypt(RefreshTokenOf(NextTokenNo),
                                            ENCRYPTION_KEY, iv)])
    /\ UNCHANGED <<users, settings, sessions>>
    /\ AccountFrame

\* the exchange fails, or answers without or with a refresh token
CallbackExchange(c) ==
    CallbackExchangeOf(c, {"failed", "noRefreshToken", "issued"})

\* auth.ts:71-77 and 96-106  getUserByGoogleId; a known user without a new
\* refresh token is signed in at once
CallbackGetUser(c) ==
    /\ acctPc[c] = "getUserByGoogleId"
    /\ LET l == acctLocal[c]
           u == getUserByGoogleId(users, l.sub)
       IN  IF u = NoAccount
           THEN /\ Suspend(c, "ensureUniqueSlug", l)
                /\ UNCHANGED sessions
           ELSE IF l.enc # EmptyBlob
           THEN /\ Suspend(c, "updateRefreshToken",
                           [l EXCEPT !.userId = u.id])
                /\ UNCHANGED sessions
           ELSE SignIn(c, u)
    /\ UNCHANGED <<google, users, settings>>
    /\ AccountFrame

\* auth.ts:75-77 and 96-106  updateRefreshToken, then the session
CallbackUpdateRefreshToken(c) ==
    /\ acctPc[c] = "updateRefreshToken"
    /\ LET l == acctLocal[c]
           a == AccountOf(l.sub)
       IN  /\ users' = updateRefreshToken(users, l.userId, l.enc)
           /\ SignIn(c, [id |-> l.userId, email |-> a.email])
    /\ UNCHANGED <<google, settings>>
    /\ AccountFrame

\* auth.ts:80-81  generateSlug and the loop of ensureUniqueSlug
CallbackEnsureUniqueSlug(c) ==
    /\ acctPc[c] = "ensureUniqueSlug"
    /\ LET l == acctLocal[c]
           a == AccountOf(l.sub)
       IN  Suspend(c, "createUser",
               [l EXCEPT !.slug = ensureUniqueSlug(users,
                                      generateSlug(a.email, a.name))])
    /\ UNCHANGED <<google, users, settings, sessions>>
    /\ AccountFrame

\* auth.ts:83-90  createUser: the INSERT and the row read back; a failed
\* INSERT reaches the catch at 107-110
CallbackCreateUser(c) ==
    /\ acctPc[c] = "createUser"
    /\ LET l   == acctLocal[c]
           a   == AccountOf(l.sub)
           row == [google_id |-> a.sub, email |-> a.email, name |-> a.name,
                   slug |-> l.slug, refresh_token |-> l.enc]
       IN  IF InsertUserFails(users, row)
           THEN /\ Answer(AuthFailedResponse)
                /\ Return(c)
                /\ UNCHANGED users
           ELSE /\ users' = createUser(users, row)
                /\ Suspend(c, "initDefaultSettings",
                       [l EXCEPT !.userId =
                           getUserByGoogleId(createUser(users, row), a.sub).id])
    /\ UNCHANGED <<google, settings, sessions>>
    /\ AccountFrame

\* auth.ts:93-106  initDefaultSettings, then the session
CallbackInitDefaultSettings(c) ==
    /\ acctPc[c] = "initDefaultSettings"
    /\ LET l == acctLocal[c]
           a == AccountOf(l.sub)
       IN  /\ settings' = initDefaultSettings(settings, l.userId, a.email,
                                              a.name)
           /\ SignIn(c, [id |-> l.userId, email |-> a.email])
    /\ UNCHANGED <<google, users>>
    /\ AccountFrame

\* The cookies a request can carry: a session token that was issued, fresh or
\* expired; a token for one of the user ids signed with another key; an
\* issued token whose payload was altered under its old signature, to name
\* another user or a later expiry; an issued token cut to two parts; or none.
Cookies ==
    sessions
    \cup {createSessionToken(u, <<>>, "guess", now) : u \in AccountIds}
    \cup {[s EXCEPT !.userId = u] : s \in sessions, u \in AccountIds}
    \cup {[s EXCEPT !.exp = s.exp + SESSION_DURATION] : s \in sessions}
    \cup {[s EXCEPT !.parts = 2] : s \in sessions}
    \cup {NoCookie}

\* The bodies of PUT /api/dashboard/settings.
UpdateBodies ==
    { ("startHour" :> JNumber(17)) @@ ("endHour" :> JNumber(9))
         @@ ("availableDays" :> JArray(<<0, 7>>))
         @@ ("duration" :> JString(<<"3", "0", "m">>)),
      ("slug" :> JString(<<"A", "m", "y", "1">>)) }

ReservedSlugs == {<<"a", "p", "i">>, <<"a", "u", "t", "h">>, <<"a", "d", "m", "i", "n">>,
                  <<"d", "a", "s", "h", "b", "o", "a", "r", "d">>, <<"s", "e", "t", "t", "i", "n", "g", "s">>,
                  <<"l", "o", "g", "i", "n">>, <<"l", "o", "g", "o", "u", "t">>}

\* settings update line 72: String(body.slug).toLowerCase().replace(..)
NormalSlug(value) == SelectSeq(ToLowerCase(StrValue(value)), IsSlugChar)

\* settings update lines 88-98: the allowed keys the body has
AllowedUpdates(body) ==
    [k \in DOMAIN body \cap SettingKeys |-> body[k]]

\* index.ts:58-64 and settings update lines 68-83: getSession, the body, the
\* checks of a new slug and isSlugAvailable
UpdateBegin(c) ==
    /\ acctPc[c] = "idle"
    /\ \E cookie \in Cookies, body \in UpdateBodies :
        LET session == getSession(cookie)
            l == [NoLocal EXCEPT !.userId = session.userId, !.body = body]
        IN  IF session = NoSession
            THEN /\ Answer(UnauthorizedResponse)
                 /\ UNCHANGED <<acctPc, acctLocal>>
            ELSE IF "slug" \notin DOMAIN body
            THEN Suspend(c, "saveSettings", l)
            ELSE LET newSlug == NormalSlug(body["slug"]) IN
                 IF Len(newSlug) < 3 \/ newSlug \in ReservedSlugs
                 THEN /\ Answer(AccountResponse("update", 400,
                                    ErrorBody("slug refused")))
                      /\ UNCHANGED <<acctPc, acctLocal>>
                 ELSE IF ~isSlugAvailable(users, newSlug, session.userId)
                 THEN /\ Answer(AccountResponse("update", 409,
                                    ErrorBody("slug taken")))
                      /\ UNCHANGED <<acctPc, acctLocal>>
                 ELSE Suspend(c, "updateUser", [l EXCEPT !.slug = newSlug])
    /\ UNCHANGED <<google, users, settings, sessions>>
    /\ AccountFrame

\* settings update line 84: updateUser; the UNIQUE index on slug makes it throw
\* when the slug was taken meanwhile (index.ts:138-142 answers)
UpdateUser(c) ==
    /\ acctPc[c] = "updateUser"
    /\ LET l == acctLocal[c] IN
       IF UpdateSlugFails(users, l.userId, l.slug)
       THEN /\ Answer(AccountResponse("update", 500, ThrownBody("D1")))
            /\ Return(c)
            /\ UNCHANGED users
       ELSE /\ users' = updateUser(users, l.userId, l.slug)
            /\ Suspend(c, "saveSettings", l)
    /\ UNCHANGED <<google, settings, sessions>>
    /\ AccountFrame

\* settings update lines 100-114: saveSettings of the allowed keys, then the
\* settings and the row read back for the response
UpdateSaveSettings(c) ==
    /\ acctPc[c] = "saveSettings"
    /\ LET l == acctLocal[c] IN
       /\ settings' = saveSettings(settings, l.userId, AllowedUpdates(l.body))
       /\ Answer(AccountResponse("update", 200, UpdatedBody(l.userId)))
       /\ Return(c)
    /\ UNCHANGED <<google, users, sessions>>
    /\ AccountFrame

\* a route that only reads: its response
Read(resp) ==
    /\ Answer(resp)
    /\ UNCHANGED <<google, users, settings, sessions, acctPc, acctLocal>>
    /\ AccountFrame

\* index.ts:58-62 and settings getDashboard
GetDashboard ==
    \E cookie \in Cookies :
        LET session == getSession(cookie) IN
        Read(IF session = NoSession THEN UnauthorizedResponse
             ELSE IF getUserById(users, session.userId) = NoAccount
             THEN AccountResponse("dashboard", 404, ErrorBody("User not found"))
             ELSE AccountResponse("dashboard", 200,
                                  DashboardBody(session.userId)))

\* index.ts:58-60, 67-79  /api/dashboard/me
GetMe ==
    \E cookie \in Cookies :
        LET session == getSession(cookie) IN
        Read(IF session = NoSession THEN UnauthorizedResponse
             ELSE IF getUserById(users, session.userId) = NoAccount
             THEN AccountResponse("me", 404, ErrorBody("User not found"))
             ELSE AccountResponse("me", 200, MeBody(session.userId)))

\* index.ts:58-60, 65-66 and bookings list (bookings.ts:129-144)
ListBookings ==
    \E cookie \in Cookies :
        LET session == getSession(cookie) IN
        Read(IF session = NoSession THEN UnauthorizedResponse
             ELSE AccountResponse("bookings", 200,
                                  BookingItems(bookings, session.userId)))

\* settings getPublic: GET /api/u/:slug/settings
GetPublic ==
    \E slug \in {u.slug : u \in users} \cup {FallbackSlug} :
        LET u == getUserBySlug(users, slug) IN
        Read(IF u = NoUser
             THEN AccountResponse("public", 404, ErrorBody("user not found"))
             ELSE AccountResponse("public", 200, PublicBody(bookings, u.id)))

AccountInit ==
    /\ now = 0
    /\ users = {}
    /\ settings = [u \in AccountIds |-> NoSettingsRows]
    /\ bookings = <<>>
    /\ calendar = [c \in CalendarIds |-> {}]
    /\ BookingsIdle
    /\ SlotsIdle
    /\ VaultIdle
    /\ AccountIdle
    /\ CacheIdle

\* Sign-in callbacks and settings updates of two clients, interleaved at
\* their awaits.
AccountNext ==
    \/ \E c \in Clients : CallbackExchange(c)
    \/ \E c \in Clients : CallbackGetUser(c)
    \/ \E c \in Clients : CallbackUpdateRefreshToken(c)
    \/ \E c \in Clients : CallbackEnsureUniqueSlug(c)
    \/ \E c \in Clients : CallbackCreateUser(c)
    \/ \E c \in Clients : CallbackInitDefaultSettings(c)
    \/ \E c \in Clients : UpdateBegin(c)
    \/ \E c \in Clients : UpdateUser(c)
    \/ \E c \in Clients : UpdateSaveSettings(c)

AccountSpec == AccountInit /\ [][AccountNext]_vars

\* A session's lifetime passes between two requests.
SessionAges ==
    /\ now < MaxTime * SESSION_DURATION
    /\ \A c \in Clients : acctPc[c] = "idle"
    /\ now' = now + SESSION_DURATION
    /\ lastResponse' = NoAccountResponse
    /\ UNCHANGED <<google, acctPc, acctLocal, sessions, users, settings,
                   cacheVars, slotsVars, vaultVars, bookings, calendar, pc, req, user,
                   conf, refreshToken, accessToken, events, eventId, response,
                   calls, errlog>>

\* Every account route, one request after the other.
RouteNext ==
    \/ CallbackExchange("c1")
    \/ CallbackGetUser("c1")
    \/ CallbackUpdateRefreshToken("c1")
    \/ CallbackEnsureUniqueSlug("c1")
    \/ CallbackCreateUser("c1")
    \/ CallbackInitDefaultSettings("c1")
    \/ UpdateBegin("c1")
    \/ UpdateUser("c1")
    \/ UpdateSaveSettings("c1")
    \/ GetDashboard
    \/ GetMe
    \/ ListBookings
    \/ GetPublic

RouteSpec == AccountInit /\ [][RouteNext]_vars

\* The dashboard routes over the lifetime of sessions: sign-ins whose token
\* response carries a refresh token, the dashboard requests, one request after
\* the other, and the clock.
SessionNext ==
    \/ CallbackExchangeOf("c1", {"issued"})
    \/ CallbackGetUser("c1")
    \/ CallbackUpdateRefreshToken("c1")
    \/ CallbackEnsureUniqueSlug("c1")
    \/ CallbackCreateUser("c1")
    \/ CallbackInitDefaultSettings("c1")
    \/ UpdateBegin("c1")
    \/ UpdateUser("c1")
    \/ UpdateSaveSettings("c1")
    \/ GetDashboard
    \/ GetMe
    \/ ListBookings
    \/ SessionAges

SessionSpec == AccountInit /\ [][SessionNext]_vars

\* ------------------------------------------------- service-account tokens
\* getAccessToken of the service-account variant (src/src/routes/settings.ts
\* lines 131-183) and the calendar call that follows it (194-208, 242-): two
\* callers in one isolate, suspended at the request to the token endpoint.
\* The clock counts seconds.

\* settings.ts:135  now + 60
CACHE_MARGIN == 60

\* expires_in of the token responses
ExpiresIn == {2 * CACHE_MARGIN, 3 * CACHE_MARGIN}

\* Mutant: whatever is cached is returned.
CacheFresh_anyCached(cached, t) == cached.set

\* settings.ts:135  cachedToken && cachedToken.expiresAt > now + 60
CacheFresh(cached, t) == cached.set /\ cached.expiresAt > t + CACHE_MARGIN

\* settings.ts:194-208  the calendar request with Authorization: Bearer token
CalendarCall(source, token, recorded, start) ==
    [source |-> source, token |-> token, recorded |-> recorded,
     start |-> start]

\* The provider honours a token until its lifetime is over.
ProviderAccepts(token, t) == t < token.iat + token.ttl

CacheFrame ==
    UNCHANGED <<accountVars, slotsVars, vaultVars, users, settings, bookings,
                calendar, pc, req, user, conf, refreshToken, accessToken,
                events, eventId, response, calls, errlog>>

\* settings.ts:133-137, 194-208  getAccessToken is entered: a fresh cached
\* token is returned and used at once; otherwise the caller signs its
\* assertion and waits for the token endpoint
TokenBegin(c) ==
    /\ tokenPc[c] = "idle"
    /\ IF CacheFresh(cachedToken, now)
       THEN /\ lastCall' = CalendarCall("cache", cachedToken.token,
                                        cachedToken.expiresAt, now)
            /\ UNCHANGED <<tokenPc, tokenLocal>>
       ELSE /\ tokenPc' = [tokenPc EXCEPT ![c] = "fetch"]
            /\ tokenLocal' = [tokenLocal EXCEPT ![c] =
                                 [start |-> now, token |-> NoAccessToken]]
            /\ lastCall' = NoCall
    /\ UNCHANGED <<now, cachedToken>>
    /\ CacheFrame

\* settings.ts:163-172  the token endpoint answers the request: it refuses,
\* and the caller throws, or it issues a token
TokenIssue(c) ==
    /\ tokenPc[c] = "fetch"
    /\ \/ /\ tokenPc' = [tokenPc EXCEPT ![c] = "idle"]
          /\ tokenLocal' = [tokenLocal EXCEPT ![c] = NoTokenLocal]
       \/ \E ttl \in ExpiresIn :
            /\ tokenPc' = [tokenPc EXCEPT ![c] = "json"]
            /\ tokenLocal' = [tokenLocal EXCEPT ![c].token =
                                 [iat |-> now, ttl |-> ttl]]
    /\ lastCall' = NoCall
    /\ UNCHANGED <<now, cachedToken>>
    /\ CacheFrame

\* settings.ts:175-182, 194-208  the response has arrived: the cache is
\* replaced, with the expiry counted from the caller's `now`, and the token
\* is used
TokenArrive(c) ==
    /\ tokenPc[c] = "json"
    /\ LET l == tokenLocal[c]
           expiresAt == l.start + l.token.ttl
       IN  /\ cachedToken' = [token |-> l.token, expiresAt |-> expiresAt,
                              set |-> TRUE]
           /\ lastCall' = CalendarCall("fetch", l.token, expiresAt, l.start)
    /\ tokenPc' = [tokenPc EXCEPT ![c] = "idle"]
    /\ tokenLocal' = [tokenLocal EXCEPT ![c] = NoTokenLocal]
    /\ UNCHANGED now
    /\ CacheFrame

\* A minute passes.
CacheTick ==
    /\ now < MaxTime * 3 * CACHE_MARGIN
    /\ now' = now + CACHE_MARGIN
    /\ lastCall' = NoCall
    /\ UNCHANGED <<cachedToken, tokenPc, tokenLocal>>
    /\ CacheFrame

CacheNext ==
    \/ \E c \in Clients : TokenBegin(c)
    \/ \E c \in Clients : TokenIssue(c)
    \/ \E c \in Clients : TokenArrive(c)
    \/ CacheTick

CacheSpec == AccountInit /\ [][CacheNext]_vars

\* --------------------------------------------- the slot loop over stored rows
\* calculateSlots (calendar.ts:90-168) pass by pass, for the settings
\* getSettings reads back from the rows of a tenant who has signed in once and
\* saves settings through the dashboard between slot requests.
MaxSlots == 16           \* passes of the loop that are followed

LoopTenant == AccountOf("g1")

\* the bodies of the tenant's PUT /api/dashboard/settings
LoopBodies ==
    { ("duration" :> JNumber(30)), ("duration" :> JNumber(120)),
      ("duration" :> JNumber(0)), ("duration" :> JNumber(0 - 30)),
      ("duration" :> JString(<<"a", "b", "c">>)) }

\* the Settings getSettings returns for the tenant (part_002:203-225)
LoopSettings == ParseSettings(settings[1])

\* the part of them the window is computed from
LoopGrid ==
    [timezone      |-> "Asia/Tokyo",
     startHour     |-> LoopSettings.startHour.n,
     endHour       |-> LoopSettings.endHour.n,
     availableDays |->
        {LoopSettings.availableDays[i].n :
            i \in {j \in DOMAIN LoopSettings.availableDays :
                      ~LoopSettings.availableDays[j].nan}}]

\* calendar.ts:133  current + durationMs <= endTime; a comparison with NaN
\* is false
LoopGoesOn ==
    /\ ~slotLocal.duration.nan
    /\ slotLocal.current + slotLocal.duration.n <= slotLocal.endTime

LoopFrame ==
    UNCHANGED <<cacheVars, accountVars, vaultVars, now, users, bookings,
                calendar, pc, req, user, conf, refreshToken, accessToken,
                events, eventId, response, calls, errlog, busy>>

LoopInit ==
    /\ now = 0
    /\ users =
         createUser({}, [google_id     |-> LoopTenant.sub,
                         email         |-> LoopTenant.email,
                         name          |-> LoopTenant.name,
                         slug          |-> generateSlug(LoopTenant.email,
                                                        LoopTenant.name),
                         refresh_token |->
                            encrypt(RefreshTokenOf(1), ENCRYPTION_KEY,
                                    CHOOSE iv \in SignInIvs : TRUE)])
    /\ settings =
         initDefaultSettings([u \in AccountIds |-> NoSettingsRows], 1,
                             LoopTenant.email, LoopTenant.name)
    /\ bookings = <<>>
    /\ calendar = [c \in CalendarIds |-> {}]
    /\ google = [g \in Subs |-> IF g = LoopTenant.sub THEN 1 ELSE 0]
    /\ acctPc = [c \in Clients |-> "idle"]
    /\ acctLocal = [c \in Clients |-> NoLocal]
    /\ sessions = {createSessionToken(1, LoopTenant.email, JWT_SECRET, 0)}
    /\ lastResponse = NoAccountResponse
    /\ BookingsIdle
    /\ SlotsIdle
    /\ VaultIdle
    /\ CacheIdle

\* settings update lines 87-102, run to its end with the tenant's session:
\* the allowed keys of the body are saved as they are
LoopUpdate ==
    /\ slotsPc \in {"idle", "Done"}
    /\ \E body \in LoopBodies :
         settings' = saveSettings(settings, 1, AllowedUpdates(body))
    /\ slotsPc' = "idle"
    /\ query' = NoQuery
    /\ slotsResponse' = NoSlotsResponse
    /\ slotLocal' = NoSlotLocal
    /\ LoopFrame

\* calendar.ts:95-131  calculateSlots is entered: the weekday test, the
\* window, the empty list
LoopEnter ==
    /\ slotsPc \in {"idle", "Done"}
    /\ \E d \in Dates :
         /\ query' = [slug |-> "", date |-> d]
         /\ IF dayOfWeek(d, LoopGrid) \notin LoopGrid.availableDays
            THEN /\ slotsPc' = "Done"
                 /\ slotsResponse' = jsonResponse(<<>>, 200)
                 /\ slotLocal' = NoSlotLocal
            ELSE /\ slotsPc' = "loop"
                 /\ slotsResponse' = jsonResponse(<<>>, 0)
                 /\ slotLocal' =
                      [current  |-> SlotWindow(d, LoopGrid).start,
                       endTime  |-> SlotWindow(d, LoopGrid).end,
                       duration |-> LoopSettings.duration,
                       timeZone |-> TimezoneOf(LoopGrid)]
    /\ UNCHANGED settings
    /\ LoopFrame

\* calendar.ts:133-164  one pass of the loop, to current += durationMs
LoopPush ==
    /\ slotsPc = "loop"
    /\ LoopGoesOn
    /\ Len(slotsResponse.body) < MaxSlots
    /\ slotsResponse' =
         jsonResponse(
             Append(slotsResponse.body,
                    TimeSlot(slotLocal.current,
                             slotLocal.current + slotLocal.duration.n,
                             busy, slotLocal.timeZone, now)),
             0)
    /\ slotLocal' =
         [slotLocal EXCEPT
            !.current = slotLocal.current + slotLocal.duration.n]
    /\ UNCHANGED <<slotsPc, query, settings>>
    /\ LoopFrame

\* calendar.ts:133, 167  the loop condition fails: return slots
LoopReturn ==
    /\ slotsPc = "loop"
    /\ ~LoopGoesOn
    /\ slotsResponse' = jsonResponse(slotsResponse.body, 200)
    /\ slotsPc' = "Done"
    /\ slotLocal' = NoSlotLocal
    /\ UNCHANGED <<query, settings>>
    /\ LoopFrame

LoopNext ==
    \/ LoopUpdate
    \/ LoopEnter
    \/ LoopPush
    \/ LoopReturn

\* The loop is synchronous code: a pass that can be made is made.
LoopSpec ==
    /\ LoopInit
    /\ [][LoopNext]_vars
    /\ WF_vars(LoopPush)
    /\ WF_vars(LoopReturn)

\* ------------------------------------------------------------ properties
Done(r) == pc[r] = "Done"

CalledOp(r, op) == \E i \in DOMAIN calls[r] : calls[r][i] = op

LoggedLine(r, line) == \E i \in DOMAIN errlog[r] : errlog[r][i] = line

AllEvents == UNION {calendar[c] : c \in CalendarIds}

EventsBy(r) == {e \in AllEvents : e.by = r}

RecordsBy(r) == {i \in DOMAIN bookings : bookings[i].by = r}

Overlap(s1, e1, s2, e2) == s2 < e1 /\ e2 > s1

\* C1: when the conflict re-check returns one or more busy periods, the
\* request ends with the conflict response, createCalendarEvent is never
\* called for it and it leaves no event and no booking record.
C1_ConflictRejectsBeforeWrite ==
    \A r \in Reqs :
        events[r] # {} =>
            /\ response[r] = SlotConflictResponse
            /\ ~CalledOp(r, "createCalendarEvent")
            /\ ~CalledOp(r, "insertBooking")
            /\ EventsBy(r) = {}
            /\ RecordsBy(r) = {}

C1_Witness ==
    \E r \in Reqs :
        /\ Done(r)
        /\ events[r] # {}
        /\ \E e \in calendar[conf[r].calendarId] :
              e.start <= req[r].start /\ e.end >= req[r].end

\* C2: a request whose createCalendarEvent failed ends in failure without
\* calling insertBooking, and the booking records never outnumber the events
\* that createCalendarEvent created: every record carries the id of such an
\* event.
C2_FailClosed ==
    /\ \A r \in Reqs :
          LoggedLine(r, CreateErrorText) =>
              /\ response[r] = BookingErrorResponse
              /\ ~CalledOp(r, "insertBooking")
              /\ RecordsBy(r) = {}
    /\ Len(bookings) <= Cardinality({e \in AllEvents : e.by \in Reqs})
    /\ \A i \in DOMAIN bookings :
          \E e \in AllEvents : e.by \in Reqs /\ e.id = bookings[i].event_id

C2_Witness ==
    \E r \in Reqs :
        /\ Done(r)
        /\ LoggedLine(r, CreateErrorText)
        /\ CalledOp(r, "createCalendarEvent")

\* C3: two requests of one tenant for the same [start, end) can both succeed,
\* and when they do the calendar holds two events and the table two records
\* for that one slot.
C3_DoubleBookingLeavesTwo ==
    \A r1, r2 \in Reqs :
        ( /\ r1 # r2
          /\ req[r1].slug = req[r2].slug
          /\ req[r1].start = req[r2].start
          /\ req[r1].end = req[r2].end
          /\ response[r1] = BookingDoneResponse
          /\ response[r2] = BookingDoneResponse )
        => /\ \E e1, e2 \in calendar[conf[r1].calendarId] :
                /\ e1 # e2
                /\ e1.by = r1 /\ e2.by = r2
                /\ e1.start = req[r1].start /\ e1.end = req[r1].end
                /\ e2.start = req[r1].start /\ e2.end = req[r1].end
           /\ \E i, j \in DOMAIN bookings :
                /\ i # j
                /\ bookings[i].by = r1 /\ bookings[j].by = r2
                /\ bookings[i].event_id = eventId[r1]
                /\ bookings[j].event_id = eventId[r2]
                /\ eventId[r1] # eventId[r2]

\* Both saw no busy period in their re-check and both succeeded.
C3_Witness ==
    \E r1, r2 \in Reqs :
        /\ r1 # r2
        /\ req[r1].slug = req[r2].slug
        /\ req[r1].start = req[r2].start
        /\ req[r1].end = req[r2].end
        /\ response[r1] = BookingDoneResponse
        /\ response[r2] = BookingDoneResponse
        /\ CalledOp(r1, "getCalendarEvents") /\ events[r1] = {}
        /\ CalledOp(r2, "getCalendarEvents") /\ events[r2] = {}
        /\ Cardinality(EventsBy(r1) \cup EventsBy(r2)) = 2
        /\ Cardinality(RecordsBy(r1) \cup RecordsBy(r2)) = 2

\* The events on r's calendar that overlap r's [start, end).
BusyFor(r) ==
    {e \in calendar[conf[r].calendarId] :
        Overlap(e.start, e.end, req[r].start, req[r].end)}

C5_OneRecordPerSuccess ==
    \A r \in Reqs :
        /\ Cardinality(RecordsBy(r)) <= 1
        /\ response[r] = BookingDoneResponse =>
              /\ Cardinality(RecordsBy(r)) = 1
              /\ \A i \in RecordsBy(r) :
                    /\ bookings[i].event_id = eventId[r]
                    /\ bookings[i].user_id = user[r].id
                    /\ \E e \in calendar[conf[r].calendarId] :
                          e.id = eventId[r] /\ e.by = r
        /\ (Done(r) /\ response[r] # BookingDoneResponse) => RecordsBy(r) = {}

\* C5 (step): no step updates or deletes a record: the table only grows.
C5_RecordsOnlyGrow ==
    /\ Len(bookings') >= Len(bookings)
    /\ \A i \in DOMAIN bookings : bookings'[i] = bookings[i]

\* C5: each successful request inserts exactly one record carrying its own
\* event id, each failed request inserts none, and the set of records only
\* grows.
C5_ExactlyOnceAndGrowOnly ==
    [](C5_OneRecordPerSuccess) /\ [][C5_RecordsOnlyGrow]_vars

C5_Witness ==
    \E r1, r2 \in Reqs :
        /\ response[r1] = BookingDoneResponse
        /\ Done(r2) /\ response[r2] # BookingDoneResponse
        /\ Len(bookings) = 1

\* C6: a request with a required field missing gets the validation response
\* and makes no call at all: no tenant lookup, token refresh, calendar call
\* or insert.
C6_MissingFieldRejectedFirst ==
    \A r \in Reqs :
        (pc[r] # "idle" /\ req[r].missing # {}) =>
            /\ response[r] = MissingFieldsResponse
            /\ calls[r] = <<>>
            /\ EventsBy(r) = {}
            /\ RecordsBy(r) = {}

C6_Witness ==
    \E r \in Reqs :
        /\ Done(r)
        /\ req[r].missing = {"email"}
        /\ response[r].status = 400

\* The step in which request r, for a tenant with a calendar, compares its
\* start with the clock.
DateCheckStep(r) ==
    /\ pc[r] = "getSettings"
    /\ pc'[r] # "getSettings"
    /\ conf'[r].calendarId # ""

\* C7 as stated: a request whose start is not strictly in the future
\* (start <= now) is rejected with the past-date response.
C7_NotInFutureRejected ==
    [][ \A r \in Reqs :
          (DateCheckStep(r) /\ req[r].start <= now) =>
              response'[r] = PastDateResponse ]_vars

\* C7 amended: a request whose start is strictly before now is rejected with
\* the past-date response, having made no token refresh, calendar call or
\* insert; a request that starts exactly now is not rejected by this check.
C7_PastStartRejected ==
    /\ [](\A r \in Reqs :
            response[r] = PastDateResponse =>
                /\ calls[r] = <<"getUserBySlug", "getSettings">>
                /\ EventsBy(r) = {}
                /\ RecordsBy(r) = {})
    /\ [][ \A r \in Reqs :
             DateCheckStep(r) =>
                 /\ req[r].start < now => response'[r] = PastDateResponse
                 /\ req[r].start >= now => response'[r] # PastDateResponse
         ]_vars

C7_Witness ==
    \E r \in Reqs :
        /\ response[r] = PastDateResponse
        /\ req[r].start < now
        /\ calls[r] = <<"getUserBySlug", "getSettings">>

\* C8: the response of a request whose insertBooking failed after its calendar
\* event was created differs from the response of a request whose
\* createCalendarEvent failed.
C8_PersistenceFailureDistinct ==
    \A r1, r2 \in Reqs :
        ( /\ LoggedLine(r1, InsertErrorText)
          /\ EventsBy(r1) # {}
          /\ LoggedLine(r2, CreateErrorText) )
        => response[r1] # response[r2]

\* C9: a failed owner notification or booker confirmation leaves the result a
\* success and leaves the booking record and the calendar event in place.
C9_MailFailureHarmless ==
    \A r \in Reqs :
        (LoggedLine(r, OwnerMailErrorText) \/ LoggedLine(r, BookerMailErrorText))
        => /\ response[r] = BookingDoneResponse
           /\ Cardinality(RecordsBy(r)) = 1
           /\ \E e \in calendar[conf[r].calendarId] :
                 e.id = eventId[r] /\ e.by = r

C9_Witness ==
    \E r \in Reqs :
        /\ Done(r)
        /\ LoggedLine(r, OwnerMailErrorText)
        /\ LoggedLine(r, BookerMailErrorText)
        /\ CalledOp(r, "sendBookerConfirmation")

\* C10: the status of the conflict response is carried by the requests that
\* failed on a conflict and by no other finished request: not by a validation
\* failure (missing field, past date, no calendar, unknown user) and not by
\* an upstream failure (decrypt, token refresh, listing, event creation,
\* insert).
C10_ConflictStatusDedicated ==
    \A r \in Reqs :
        Done(r) =>
            /\ events[r] # {} => response[r].status = SlotConflictResponse.status
            /\ events[r] = {} => response[r].status # SlotConflictResponse.status

C10_Witness ==
    \E r1, r2 \in Reqs :
        /\ Done(r1) /\ events[r1] # {}
        /\ response[r1].status = 409
        /\ Done(r2)
        /\ response[r2] \in {UncaughtResponse(ListErrorText), PastDateResponse}

\* The texts that carry what an upstream service or the runtime answered.
UpstreamErrorTexts ==
    {DecryptErrorText, RefreshErrorText, ListErrorText, CreateErrorText,
     InsertErrorText}

\* The request ended at the call op: op is the last call it made.
EndedAt(r, op) ==
    Done(r) /\ calls[r] # <<>> /\ calls[r][Len(calls[r])] = op

DecryptFailed(r) == EndedAt(r, "decrypt")

RefreshRejected(r) == EndedAt(r, "refreshAccessToken")

ListFailed(r) == EndedAt(r, "getCalendarEvents") /\ events[r] = {}

\* C11: the response body of a booking request in which decrypt,
\* refreshAccessToken, getCalendarEvents, createCalendarEvent or insertBooking
\* failed is the generic failure message and carries no upstream error text.
C11_FailureBodyGeneric ==
    \A r \in Reqs :
        ( \/ DecryptFailed(r) \/ RefreshRejected(r) \/ ListFailed(r)
          \/ LoggedLine(r, CreateErrorText) \/ LoggedLine(r, InsertErrorText) )
        => /\ response[r].body = BookingErrorResponse.body
           /\ response[r].body.error \notin UpstreamErrorTexts
           /\ response[r].body.message \notin UpstreamErrorTexts

\* C12: the outcome of a booking request whose refresh token the provider
\* rejected is not a 500 and has a status no other upstream failure has.
C12_ReconnectConditionDistinct ==
    \A r1 \in Reqs :
        RefreshRejected(r1) =>
            /\ response[r1].status # 500
            /\ \A r2 \in Reqs :
                 ( \/ DecryptFailed(r2) \/ ListFailed(r2)
                   \/ LoggedLine(r2, CreateErrorText)
                   \/ LoggedLine(r2, InsertErrorText) )
                 => response[r2].status # response[r1].status

\* ------------------------------------------------- properties: slots route
\* The slots request was answered with a slot list.
SlotsAnswered == slotsPc = "Done" /\ slotsResponse.status = 200

\* the Settings of the tenant the slots request addressed
Tenant == settings[1]

OutSlots == slotsResponse.body

\* C13: for every slot calculateSlots produced from the list of busy periods,
\* isBusy holds exactly when the list has an all-day period or a timed period
\* with slotStart < busyEnd and slotEnd > busyStart; when the list has no
\* all-day period and every period ends at or before the slot's start or
\* starts at or after its end, the slot is not busy.
C13_BusyIffOverlap ==
    SlotsAnswered =>
        \A i \in DOMAIN OutSlots :
            LET sl == OutSlots[i] IN
            /\ sl.isBusy <=>
                 \/ \E b \in busy : b.isAllDay
                 \/ \E b \in busy :
                      ~b.isAllDay /\ sl.start < b.end /\ sl.end > b.start
            /\ (\A b \in busy :
                    ~b.isAllDay /\ (b.start >= sl.end \/ b.end <= sl.start))
               => ~sl.isBusy

C13_Witness ==
    /\ SlotsAnswered
    /\ \E i, j \in DOMAIN OutSlots : \E b \in busy :
        /\ ~b.isAllDay
        /\ OutSlots[i].isBusy
        /\ OutSlots[i].start < b.end /\ OutSlots[i].end > b.start
        /\ b.end = OutSlots[j].start
        /\ ~OutSlots[j].isBusy

\* the requested date begins, in every zone, after the evaluation instant
DateInFuture(d) == now + MinutesPerDay <= ParseUTC(d)

\* C14: for a date on an enabled weekday and settings with startHour < endHour
\* and a duration dividing the window, the list has exactly
\* (endHour - startHour) * 60 / duration slots, all available when there is no
\* busy period and the date is in the future.
C14_SlotCount ==
    SlotsAnswered =>
        LET s == Tenant
            window == (s.endHour - s.startHour) * 60
        IN  ( /\ WeekdayOfDate(query.date) \in s.availableDays
              /\ s.startHour < s.endHour
              /\ window % s.duration = 0 )
            => /\ Len(OutSlots) = window \div s.duration
               /\ (busy = {} /\ DateInFuture(query.date))
                  => \A i \in DOMAIN OutSlots : OutSlots[i].available

\* C15: when the weekday of the requested date is not in availableDays the
\* list is empty; when it is and the window admits a slot the list is not
\* empty.
C15_WeekdayGate ==
    SlotsAnswered =>
        LET s == Tenant IN
        /\ WeekdayOfDate(query.date) \notin s.availableDays
           => OutSlots = <<>>
        /\ ( /\ WeekdayOfDate(query.date) \in s.availableDays
             /\ s.startHour * 60 + s.duration <= s.endHour * 60 )
           => OutSlots # <<>>

\* C16: the weekday calculateSlots tests against availableDays is the weekday
\* of the requested calendar date.
C16_WeekdayOfRequestedDate ==
    SlotsAnswered =>
        dayOfWeek(query.date, Tenant) = WeekdayOfDate(query.date)

\* C17: the first slot starts at the instant whose civil time in the tenant's
\* zone is startHour:00 of the requested date, and the window ends at the
\* instant whose civil time is endHour:00 of that date.
C17_WindowAtCivilHours ==
    (SlotsAnswered /\ OutSlots # <<>>) =>
        LET s  == Tenant
            tz == TimezoneOf(s)
            d  == query.date
        IN  /\ CivilTime(tz, OutSlots[1].start)
                 = d * MinutesPerDay + s.startHour * 60
            /\ CivilTime(tz, SlotWindow(d, s).end)
                 = d * MinutesPerDay + s.endHour * 60

\* C18: for every slot returned, isPast holds exactly when the slot starts
\* strictly before the evaluation instant, and available is (not isBusy) and
\* (not isPast).
C18_PastAndAvailable ==
    SlotsAnswered =>
        \A i \in DOMAIN OutSlots :
            LET sl == OutSlots[i] IN
            /\ sl.isPast <=> sl.start < now
            /\ sl.available <=> (~sl.isBusy /\ ~sl.isPast)

C18_Witness ==
    /\ SlotsAnswered
    /\ \E i, j, k \in DOMAIN OutSlots :
        /\ OutSlots[i].start = now /\ ~OutSlots[i].isPast
        /\ OutSlots[i].isBusy /\ ~OutSlots[i].available
        /\ OutSlots[j].isPast /\ ~OutSlots[j].available
        /\ OutSlots[k].available

\* the all-day event e covers the date d
CoversDate(e, d) == e.isAllDay /\ e.start <= ParseUTC(d) /\ ParseUTC(d + 1) <= e.end

\* C19: when the tenant's calendar holds only all-day events, the slots of the
\* requested date are busy exactly when one of the events covers that date.
C19_AllDayOnlyOnItsDate ==
    ( /\ SlotsAnswered
      /\ OutSlots # <<>>
      /\ \A e \in calendar[Tenant.calendarId] : e.isAllDay )
    => ( (\E i \in DOMAIN OutSlots : OutSlots[i].isBusy)
         <=> \E e \in calendar[Tenant.calendarId] : CoversDate(e, query.date) )

\* ------------------------------------------------- properties: crypto.ts
\* C20: what decrypt returns for the blob encrypt made of x under k, opened
\* under k, is x.
C20_RoundTrip ==
    ( /\ vaultPc = "Done"
      /\ vaultIn.opener = vaultIn.secret
      /\ vaultIn.tampering = "none" )
    => /\ vaultOut.ok
       /\ vaultOut.pt = vaultIn.plaintext

\* C21: decrypt throws, and hands back no plaintext, when it is given another
\* secret than the one the blob was sealed under, or a blob whose nonce,
\* ciphertext or tag was altered, or a truncated or an empty blob.
C21_DecryptRejects ==
    ( /\ vaultPc = "Done"
      /\ (vaultIn.opener # vaultIn.secret \/ vaultIn.tampering # "none") )
    => /\ ~vaultOut.ok
       /\ vaultOut.pt = <<>>

C21_Witness ==
    /\ vaultPc = "Done"
    /\ vaultIn.opener = vaultIn.secret
    /\ vaultIn.tampering = "truncated"
    /\ Len(atob(vaultBlob)) > 1
    /\ vaultIn.plaintext # <<>>
    /\ ~vaultOut.ok

\* --------------------------------------------- properties: booking steps
\* the tenant the request's slug resolves to
TenantOf(r) == getUserBySlug(users, req[r].slug)

\* the request holds an access token it is about to use, or has used, for a
\* calendar call
HoldsToken(r) ==
    \/ pc[r] \in {"ConflictChecking", "CalendarWriting", "Persisting",
                  "Notifying"}
    \/ Done(r) /\ CalledOp(r, "getCalendarEvents")

\* C24: every booking request that makes a calendar call decrypted the
\* credential and refreshed the access token within that request, and the
\* token it holds was granted for the refresh token of the tenant its slug
\* resolves to, whose settings name the calendar it calls; this holds under
\* every interleaving of requests for different tenants.
C24_TokenOfOwnTenant ==
    \A r \in Reqs :
        HoldsToken(r) =>
            /\ CalledOp(r, "decrypt")
            /\ CalledOp(r, "refreshAccessToken")
            /\ user[r] = TenantOf(r)
            /\ accessToken[r].grant =
                 decrypt(TenantOf(r).refresh_token, ENCRYPTION_KEY).pt
            /\ accessToken[r].grant = RefreshTokenOf(TenantOf(r).id)
            /\ conf[r] = getSettings(settings, TenantOf(r).id)

C24_Witness ==
    \E r1, r2 \in Reqs :
        /\ pc[r1] = "CalendarWriting"
        /\ pc[r2] = "CalendarWriting"
        /\ req[r1].slug = "alice"
        /\ req[r2].slug = "bob"
        /\ accessToken[r1].grant = RefreshTokenOf(1)
        /\ accessToken[r2].grant = RefreshTokenOf(2)

\* the calls of one booking request, in the order of the handler
StepOrder ==
    <<"getUserBySlug", "getSettings", "decrypt", "refreshAccessToken",
      "getCalendarEvents", "createCalendarEvent", "insertBooking",
      "sendOwnerNotification", "sendBookerConfirmation">>

IsPrefix(s, t) == Len(s) <= Len(t) /\ s = SubSeq(t, 1, Len(s))

Failed(r) == Done(r) /\ response[r].status >= 400

Completed(r) == Done(r) /\ response[r] = BookingDoneResponse

\* some step of the request failed upstream
StepFailed(r) ==
    \/ response[r] \in {UncaughtResponse(m) : m \in UpstreamErrorTexts}
    \/ errlog[r] # <<>>

\* C27 as stated: the request enters Failed from whichever step fails,
\* notifications included.
C27_FailedFromEveryStep ==
    \A r \in Reqs : (Done(r) /\ StepFailed(r)) => Failed(r)

\* C27: the calls a booking request has made are a prefix of validate
\* (getUserBySlug, getSettings), token (decrypt, refreshAccessToken),
\* getCalendarEvents, createCalendarEvent, insertBooking, notifications; a
\* step is called only after every earlier one succeeded; the request ends
\* failed when validation, the conflict check, createCalendarEvent or
\* insertBooking fails, and a request that reached the notifications ends
\* completed whatever becomes of them.
C27_StepsInOrder ==
    \A r \in Reqs :
        /\ IsPrefix(calls[r], StepOrder)
        /\ CalledOp(r, "getCalendarEvents") =>
              /\ ~MissingRequired(req[r])
              /\ user[r] # NoUser
              /\ conf[r].calendarId # ""
              /\ accessToken[r] # NoToken
        /\ CalledOp(r, "createCalendarEvent") =>
              /\ events[r] = {}
              /\ response[r] # UncaughtResponse(ListErrorText)
        /\ CalledOp(r, "insertBooking") =>
              /\ eventId[r] # NoEventId
              /\ \E e \in EventsBy(r) : e.id = eventId[r]
        /\ CalledOp(r, "sendOwnerNotification") =>
              \E i \in RecordsBy(r) : bookings[i].event_id = eventId[r]
        /\ (Done(r) /\ ~CalledOp(r, "sendOwnerNotification")
                    /\ (StepFailed(r) \/ ~CalledOp(r, "insertBooking")))
              => Failed(r)
        /\ (Done(r) /\ CalledOp(r, "sendOwnerNotification")) => Completed(r)

C27_Witness ==
    \E r1, r2 \in Reqs :
        /\ Failed(r1)
        /\ calls[r1] = SubSeq(StepOrder, 1, 7)
        /\ Completed(r2)
        /\ calls[r2] = StepOrder
        /\ LoggedLine(r2, OwnerMailErrorText)

TimesCalled(r, op) == Cardinality({i \in DOMAIN calls[r] : calls[r][i] = op})

\* C28: within one booking request refreshAccessToken, getCalendarEvents,
\* createCalendarEvent and insertBooking are each called at most once, the
\* request leaves at most one event and one record, and a request whose
\* createCalendarEvent or insertBooking failed has ended with exactly one
\* call of createCalendarEvent.
C28_NoRetry ==
    \A r \in Reqs :
        /\ \A op \in {"refreshAccessToken", "getCalendarEvents",
                      "createCalendarEvent", "insertBooking"} :
              TimesCalled(r, op) <= 1
        /\ Cardinality(EventsBy(r)) <= 1
        /\ Cardinality(RecordsBy(r)) <= 1
        /\ (LoggedLine(r, CreateErrorText) \/ LoggedLine(r, InsertErrorText))
              => /\ Failed(r)
                 /\ TimesCalled(r, "createCalendarEvent") = 1

C28_Witness ==
    \E r1, r2 \in Reqs :
        /\ LoggedLine(r1, CreateErrorText)
        /\ Failed(r1)
        /\ EventsBy(r1) = {}
        /\ LoggedLine(r2, InsertErrorText)
        /\ Failed(r2)
        /\ Cardinality(EventsBy(r2)) = 1

\* C29: a booking request that ends completed has attempted the owner
\* notification and the booker confirmation, both after its record was
\* inserted, and a request that ends failed has attempted neither.
C29_BothAttemptedWhenCompleted ==
    \A r \in Reqs :
        /\ CalledOp(r, "sendOwnerNotification") => RecordsBy(r) # {}
        /\ Completed(r) => /\ CalledOp(r, "sendOwnerNotification")
                           /\ CalledOp(r, "sendBookerConfirmation")
        /\ Failed(r) => /\ ~CalledOp(r, "sendOwnerNotification")
                        /\ ~CalledOp(r, "sendBookerConfirmation")

\* C30: for every date, settings and busy list for which calculateSlots
\* returns slots, the first slot starts at the start of the window, every slot
\* ends a duration after it starts, each next slot starts where the one before
\* it ends (so the starts increase strictly), and the last slot ends at or
\* before the end of the window, less than a duration before it, also when
\* the duration does not divide the window.
C30_SlotsTileWindow ==
    (SlotsAnswered /\ OutSlots # <<>>) =>
        LET w == SlotWindow(query.date, Tenant)
            n == Len(OutSlots)
        IN  /\ OutSlots[1].start = w.start
            /\ \A i \in 1..n :
                  OutSlots[i].end = OutSlots[i].start + Tenant.duration
            /\ \A i \in 1..(n - 1) :
                  /\ OutSlots[i + 1].start = OutSlots[i].end
                  /\ OutSlots[i].start < OutSlots[i + 1].start
            /\ OutSlots[n].end <= w.end
            /\ w.end - OutSlots[n].end < Tenant.duration

C30_Witness ==
    /\ SlotsAnswered
    /\ Len(OutSlots) = 2
    /\ Tenant.duration = 45
    /\ OutSlots[2].end < SlotWindow(query.date, Tenant).end

\* ---------------------------------------------- properties: account routes
\* a response item that is a tenant's credential: the refresh_token column or
\* the refresh_token of a token response
IsCredential(item) == item[3] = "refresh_token"

\* C22: no response of the callback, the dashboard routes (settings read and
\* update, me, bookings list), the public settings route or an error answer
\* carries a tenant's refresh token, stored or as issued.
C22_NoCredentialInResponse ==
    \A item \in lastResponse.shows : ~IsCredential(item)

C22_Witness ==
    /\ lastResponse.route = "me"
    /\ lastResponse.status = 200
    /\ \E u \in users :
        /\ u.refresh_token # EmptyBlob
        /\ <<"users", u.id, "slug">> \in lastResponse.shows

\* no callback is suspended
NoCallbackInFlight ==
    \A c \in Clients : acctPc[c] \in {"idle", "updateUser", "saveSettings"}

\* C23: once the callbacks have returned, the credential stored for every
\* tenant Google issued a refresh token to decrypts to the token issued to
\* that account last.
C23_StoredIsLatestIssued ==
    NoCallbackInFlight =>
        \A u \in users :
            google[u.google_id] > 0 =>
                decrypt(u.refresh_token, ENCRYPTION_KEY) =
                    [ok |-> TRUE, pt |-> RefreshTokenOf(google[u.google_id])]

\* the Settings object is inside the ranges the slot generator assumes
ValidSettings(s) ==
    /\ ~s.startHour.nan /\ ~s.endHour.nan /\ ~s.duration.nan
    /\ s.startHour.n < s.endHour.n
    /\ s.duration.n > 0
    /\ \A i \in DOMAIN s.availableDays :
          /\ ~s.availableDays[i].nan
          /\ s.availableDays[i].n \in 0..6

\* C25: the settings stored for every tenant read back with
\* startHour < endHour, duration > 0 and availableDays within 0..6.
C25_StoredSettingsValid ==
    \A u \in users : ValidSettings(ParseSettings(settings[u.id]))

\* the rows initDefaultSettings writes for the account
DefaultRows(a) ==
    [k \in SettingKeys |-> StrValue(DefaultSettings(a.email, a.name)[k])]

LaterInstants ==
    {t \in SlotNows \cup {now, now + 1, now + 60, now + MinutesPerDay} :
        t >= now}

\* C31: for the date, busy periods and settings of the request and every
\* instant t2 at or after the instant the list was computed at,
\* calculateSlots returns as many slots with the same start, end, civil-time
\* fields and isBusy; a slot that is past in the list is past at t2, and a
\* slot that is not available in the list is not available at t2.
C31_OnlyPastAdvances ==
    SlotsAnswered =>
        \A t2 \in LaterInstants :
            LET later == calculateSlots(query.date, busy, Tenant, t2) IN
            /\ Len(later) = Len(OutSlots)
            /\ \A i \in DOMAIN OutSlots :
                  /\ later[i].start = OutSlots[i].start
                  /\ later[i].end = OutSlots[i].end
                  /\ later[i].startHour = OutSlots[i].startHour
                  /\ later[i].startMinute = OutSlots[i].startMinute
                  /\ later[i].endHour = OutSlots[i].endHour
                  /\ later[i].endMinute = OutSlots[i].endMinute
                  /\ later[i].isBusy = OutSlots[i].isBusy
                  /\ OutSlots[i].isPast => later[i].isPast
                  /\ ~OutSlots[i].available => ~later[i].available

C31_Witness ==
    /\ SlotsAnswered
    /\ \E t2 \in LaterInstants :
        LET later == calculateSlots(query.date, busy, Tenant, t2) IN
        \E i, j, k \in DOMAIN OutSlots :
            /\ OutSlots[i].available /\ ~later[i].available
            /\ OutSlots[j].isPast /\ later[j].isPast
            /\ OutSlots[k].isBusy /\ ~OutSlots[k].isPast /\ later[k].isPast

\* -------------------------------------- properties: what the slots route sees
\* C36: every timed event of the tenant's calendar that overlaps a slot of
\* the answered list is among the busy periods the route passed to
\* calculateSlots, and no slot that overlaps a timed event of the calendar is
\* reported available.
C36_OverlappingEventsFetched ==
    SlotsAnswered =>
        \A e \in calendar[Tenant.calendarId] :
            \A i \in DOMAIN OutSlots :
                (~e.isAllDay /\ SlotOverlaps(OutSlots[i].start,
                                             OutSlots[i].end, e))
                => /\ e \in busy
                   /\ ~OutSlots[i].available

\* ------------------------------------ properties: bookings and the slot grid
\* part_002:265  maxDays: 30
DefaultMaxDays == 30

\* The Settings of a tenant of the booking runs as the slot generator reads
\* them: the rows initDefaultSettings wrote at onboarding (part_002:251-268)
\* with the tenant's calendar, mail address and zone.  The instants of the
\* booking runs are minutes since 2026-03-07T00:00Z.
GridSettings(u) ==
    [calendarId    |-> settings[u.id].calendarId,
     ownerEmail    |-> settings[u.id].ownerEmail,
     timezone      |-> settings[u.id].timezone,
     startHour     |-> 9,
     endHour       |-> 17,
     duration      |-> 60,
     availableDays |-> {1, 2, 3, 4, 5}]

\* [start, end) is a slot calculateSlots enumerates for the tenant for some
\* date, evaluated at instant t
IsGridSlot(u, start, end, t) ==
    \E d \in (0 - 1)..MaxDay :
        LET slots == calculateSlots(d, {}, GridSettings(u), t) IN
        \E i \in DOMAIN slots :
            slots[i].start = start /\ slots[i].end = end

\* C33: every booking request that completed is for an interval that ends
\* after it starts, that calculateSlots enumerates for the tenant (enabled
\* weekday, inside the window, of the configured duration), and that starts
\* no more than maxDays after the evaluation instant.
C33_CompletedIsGridSlot ==
    \A r \in Reqs :
        Completed(r) =>
            /\ req[r].start < req[r].end
            /\ IsGridSlot(TenantOf(r), req[r].start, req[r].end, now)
            /\ req[r].start <= now + DefaultMaxDays * MinutesPerDay

\* ------------------------------------ properties: bookings stay per tenant
\* bookings.ts:128-144  the records the dashboard list returns to a session
listBookings(db, session) == getBookings(db, session.userId)

\* the session a sign-in of the tenant gets
SessionOf(u) == getSession(createSessionToken(u.id, <<>>, JWT_SECRET, now))

\* C38: every booking record is stored under the tenant the slug of the
\* request that made it resolves to, and names an event of that request in
\* the calendar of that tenant; every event a request wrote is in the
\* calendar of its tenant and was written with the access token granted for
\* that tenant's credential; and the dashboard list of a tenant's session
\* holds exactly the records made by requests for that tenant.
C38_RecordsUnderOwnTenant ==
    /\ \A i \in DOMAIN bookings :
         LET b == bookings[i]
             t == TenantOf(b.by)
         IN  /\ b.user_id = t.id
             /\ \E e \in calendar[getSettings(settings, t.id).calendarId] :
                   e.id = b.event_id /\ e.by = b.by
    /\ \A r \in Reqs : \A c \in CalendarIds : \A e \in calendar[c] :
         e.by = r =>
            /\ c = getSettings(settings, TenantOf(r).id).calendarId
            /\ accessToken[r].grant = RefreshTokenOf(TenantOf(r).id)
    /\ \A u \in users :
         LET listed == listBookings(bookings, SessionOf(u)) IN
         {listed[i] : i \in DOMAIN listed}
           = {bookings[i] : i \in {j \in DOMAIN bookings :
                                      TenantOf(bookings[j].by) = u}}

C38_Witness ==
    \E u, v \in users :
        /\ u # v
        /\ Len(listBookings(bookings, SessionOf(u))) = 1
        /\ Len(listBookings(bookings, SessionOf(v))) = 1
        /\ listBookings(bookings, SessionOf(u))
             # listBookings(bookings, SessionOf(v))
        /\ \A r \in Reqs : Completed(r)

\* ------------------------------------- properties: the stored credential
\* C35: the refresh_token stored for every tenant opens under the process
\* secret, so the decrypt of a later slots, events or booking request of the
\* tenant succeeds, also for a tenant whose first callback carried no
\* refresh token.
C35_StoredCredentialOpens ==
    \A u \in users : decrypt(u.refresh_token, ENCRYPTION_KEY).ok

\* --------------------------------------------- properties: slugs of tenants
\* C39: in every state the interleaved callbacks and settings updates reach,
\* no two users have the same slug, and ensureUniqueSlug, run for any account
\* against the users stored, ends with a slug no user has.
C39_SlugsUnique ==
    /\ \A u, v \in users : u.slug = v.slug => u = v
    /\ \A a \in GoogleAccounts :
         LET slug == ensureUniqueSlug(users, generateSlug(a.email, a.name))
         IN  \A u \in users : u.slug # slug

C39_Witness ==
    /\ lastResponse = AccountResponse("update", 500, ThrownBody("D1"))
    /\ Cardinality(users) = 2
    /\ \E u, v \in users :
        /\ u.slug = generateSlug(AccountOf(u.google_id).email,
                                 AccountOf(u.google_id).name)
        /\ v.slug = u.slug \o <<"1">>

\* ------------------------------------------- properties: the dashboard gate
DashboardRoutes == {"dashboard", "me", "bookings", "update"}

\* a token issued to user u under the signing secret has not expired
ValidSessionOf(u) == \E t \in sessions : t.userId = u /\ t.exp >= now

\* getSession accepts a cookie exactly when it is a token that was issued
\* under the signing secret and whose exp is not before now, and then returns
\* the userId of that token
GateAcceptsOnlyValid ==
    \A cookie \in Cookies :
        LET session == getSession(cookie) IN
        IF cookie \in sessions /\ cookie.exp >= now
        THEN session # NoSession /\ session.userId = cookie.userId
        ELSE session = NoSession

\* a step of a dashboard request
GateStep ==
    LET r == lastResponse' IN
    \* a 401 comes with no data and changes nothing
    /\ (r.route \in DashboardRoutes /\ r.status = 401)
       => /\ r.shows = ErrorBody("Unauthorized")
          /\ UNCHANGED <<users, settings, bookings, sessions, acctPc,
                         acctLocal>>
    \* a request that is answered otherwise at once carried a valid token,
    \* and the rows it shows are those of the token's user
    /\ ( /\ r.route \in DashboardRoutes /\ r.status # 401
         /\ acctPc' = acctPc )
       => \E t \in sessions :
            /\ t.exp >= now
            /\ \A item \in r.shows :
                 item[1] \in {"users", "settings"} => item[2] = t.userId
    \* an update that goes on to the database does so for the user of a
    \* valid token
    /\ \A c \in Clients :
         ( /\ acctPc[c] = "idle"
           /\ acctPc'[c] \in {"updateUser", "saveSettings"} )
         => ValidSessionOf(acctLocal'[c].userId)
    \* and its writes and its answer are about that user only
    /\ \A c \in Clients :
         ( /\ acctPc[c] \in {"updateUser", "saveSettings"}
           /\ acctPc'[c] # acctPc[c] ) =>
            /\ \A u \in AccountIds \ {acctLocal[c].userId} :
                 /\ settings'[u] = settings[u]
                 /\ getUserById(users', u) = getUserById(users, u)
            /\ \A item \in r.shows :
                 item[1] \in {"users", "settings"}
                 => item[2] = acctLocal[c].userId

\* C37: a dashboard request is served only with a cookie that is a session
\* token signed under the signing secret whose exp is not before now; with no
\* cookie, a token cut short, a token signed with another key, an altered
\* token or an expired one the answer is 401, carries no settings, user or
\* booking data and changes nothing; the handlers read and write the rows of
\* the userId in the verified token only.
C37_DashboardNeedsSession == []GateAcceptsOnlyValid /\ [][GateStep]_vars

C37_Witness ==
    /\ lastResponse = UnauthorizedResponse
    /\ Cardinality(users) = 2
    /\ sessions # {}
    /\ \A t \in sessions : t.exp < now

\* ----------------------------------------- properties: the token cache
\* what holds of the calendar call of the last step
CallWithLiveToken ==
    \* a cached token is used only with more than the margin left on the
    \* expiry recorded for it, and the provider honours it as it would a
    \* token fetched at that instant
    /\ lastCall.source = "cache"
       => /\ lastCall.recorded > now + CACHE_MARGIN
          /\ ProviderAccepts(lastCall.token, now)
    \* a fetched token has replaced the cache, and its recorded expiry has not
    \* passed unless the token endpoint took the token's lifetime to answer
    /\ lastCall.source = "fetch"
       => /\ cachedToken = [token |-> lastCall.token,
                            expiresAt |-> lastCall.recorded, set |-> TRUE]
          /\ now - lastCall.start < lastCall.token.ttl
             => lastCall.recorded > now
    \* the expiry recorded for a token is never later than the instant the
    \* provider stops honouring it
    /\ lastCall # NoCall
       => lastCall.recorded <= lastCall.token.iat + lastCall.token.ttl
    /\ cachedToken.set
       => cachedToken.expiresAt
            <= cachedToken.token.iat + cachedToken.token.ttl

\* a caller goes to the token endpoint only when the cache holds no token
\* with more than the margin left
FetchOnlyWhenStale ==
    \A c \in Clients :
        (tokenPc[c] = "idle" /\ tokenPc'[c] = "fetch")
        => ~(cachedToken.set /\ cachedToken.expiresAt > now + CACHE_MARGIN)

LoopRemaining == slotLocal.endTime - slotLocal.current

\* a pass of the loop brings current closer to endTime
LoopPassAdvances ==
    (slotsPc = "loop" /\ slotsPc' = "loop") => LoopRemaining' < LoopRemaining

\* C34: whatever settings the tenant has saved, a call of calculateSlots that
\* has entered its loop comes closer to its end with every pass, leaves the
\* loop and returns its list.
C34_SlotLoopReturns ==
    /\ [][LoopPassAdvances]_vars
    /\ (slotsPc = "loop") ~> (slotsPc = "Done")

====
